---- MODULE Spec2Model ----
(***************************************************************************)
(* A model of the Tech-Skills ETL pipeline: the Warehouse Builder          *)
(* (warehouse.py), the Data Mining Analyzer (data_mining.py), the          *)
(* Validator (validaciones.py) and the orchestration of etl_simple.py and  *)
(* etl_main.py.                                                            *)
(*                                                                         *)
(* Seven specifications share the module:                                  *)
(*   Spec           the warehouse part of main_simple (PASO 4 .. PASO 7)   *)
(*   SpecMining     perform_data_mining_analysis on a unified table        *)
(*   SpecValidation validate_dataframe per source and the metrics artifact *)
(*   SpecRun        the stages of main_simple                              *)
(*   SpecCleaner    one call of a column operation of the cleaner          *)
(*   SpecCleanDataframe  one call of clean_dataframe                       *)
(*   SpecText       the text features of transform_dataframe               *)
(***************************************************************************)
EXTENDS Integers, Sequences, FiniteSets, Bags, TLC

(***************************************************************************)
(* Bounds of the model (not program constants).                            *)
(***************************************************************************)
\* most rows the three input tables of the warehouse specification hold
\* together
MaxRows == 3
\* last value of the wall clock
MaxClock == 1
\* the most calls of create_features_from_text in one transformation
MaxTextCalls == 2
\* the most rows of a table handed to the Cleaner
MaxCleanRows == 2
\* the most distinct rows of a numeric table handed to clean_dataframe
MaxNumericRows == 12
\* the most profiles of a mining table, in twenties
MaxProfileScores == 6
\* how far around a program threshold the row counts of SpecMining and
\* SpecValidation are drawn
Margin == 1

(***************************************************************************)
(* Cell values.  A pandas cell is null (None / NaN / NaT), a number, a     *)
(* string, a boolean or a timestamp; every value is a record of the same   *)
(* shape so that any two cells can be compared.                            *)
(***************************************************************************)
Null == [k |-> "null", n |-> 0, s |-> ""]
Num(x) == [k |-> "num", n |-> x, s |-> ""]
Str(x) == [k |-> "str", n |-> 0, s |-> x]
Bool(b) == [k |-> "bool", n |-> IF b THEN 1 ELSE 0, s |-> ""]
Time(t) == [k |-> "time", n |-> t, s |-> ""]
\* a cell holding a Python list, which is not hashable
ListCell == [k |-> "list", n |-> 0, s |-> ""]

notna(v) == v.k # "null"

Range(f) == {f[i] : i \in DOMAIN f}

RECURSIVE SumSeq(_)
SumSeq(s) == IF s = <<>> THEN 0 ELSE Head(s) + SumSeq(Tail(s))

\* len(df[mask]): mask is the set of the positions selected in s
CountIf(s, mask) == Cardinality(mask \cap DOMAIN s)

(***************************************************************************)
(* Tables.  A DataFrame is its ordered column list and its ordered rows;   *)
(* a row is a function from the column names to cells.                     *)
(***************************************************************************)
DataFrame(cols, rows) == [columns |-> cols, rows |-> rows]

\* row.get(col): the cell, or None when the row has no such column
Get(row, col) == IF col \in DOMAIN row THEN row[col] ELSE Null

\* df[col] = values, one value per row: replaces the column in place or
\* appends it as the last column
SetColumn(df, col, values) ==
    [columns |-> IF col \in Range(df.columns) THEN df.columns
                 ELSE Append(df.columns, col),
     rows |-> [i \in DOMAIN df.rows |->
                 [c \in (DOMAIN df.rows[i]) \cup {col} |->
                     IF c = col THEN values[i] ELSE df.rows[i][c]]]]

\* df.drop(columns=[col])
DropColumn(df, col) ==
    [columns |-> SelectSeq(df.columns, LAMBDA c : c # col),
     rows |-> [i \in DOMAIN df.rows |->
                 [c \in (DOMAIN df.rows[i]) \ {col} |-> df.rows[i][c]]]]

(***************************************************************************)
(* transformacion.py: normalize_column_names.  Lower-cases a header and    *)
(* strips the characters that are not word characters; an accented letter  *)
(* is a word character and is kept.  The operator is the table of the      *)
(* function on the headers the model uses.                                 *)
(***************************************************************************)
NormalizeName(h) ==
    CASE h = "ID_Oferta" -> "id_oferta"
      [] h = "Empresa" -> "empresa"
      [] h = "País" -> "país"
      [] h = "Pais" -> "pais"
      [] h = "Lenguaje" -> "lenguaje"
      [] h = "Framework" -> "framework"
      [] h = "Salario_Anual_USD" -> "salario_anual_usd"
      [] h = "ID_Programa" -> "id_programa"
      [] h = "Inversión_USD" -> "inversión_usd"
      [] h = "Inversion_USD" -> "inversion_usd"
      [] h = "Participantes" -> "participantes"
      [] h = "ID_Persona" -> "id_persona"
      [] h = "Edad" -> "edad"
      [] h = "Años_Experiencia" -> "años_experiencia"
      [] h = "Anos_Experiencia" -> "anos_experiencia"
      [] h = "Salario_Actual_USD" -> "salario_actual_usd"
      [] OTHER -> h

normalize_column_names(df) ==
    [columns |-> [i \in DOMAIN df.columns |-> NormalizeName(df.columns[i])],
     rows |-> [i \in DOMAIN df.rows |->
                 [c \in {NormalizeName(h) : h \in DOMAIN df.rows[i]} |->
                     df.rows[i][CHOOSE h \in DOMAIN df.rows[i] : NormalizeName(h) = c]]]]

(***************************************************************************)
(* warehouse.py                                                            *)
(***************************************************************************)
standardize_common_columns(df, source_type, now) ==
    LET renamed == IF "país" \in Range(df.columns)
                   THEN DropColumn(SetColumn(df, "pais", [i \in DOMAIN df.rows |-> df.rows[i]["país"]]), "país")
                   ELSE df
        labelled == SetColumn(renamed, "fuente_datos",
                             [i \in DOMAIN renamed.rows |-> Str(source_type)])
    IN  SetColumn(labelled, "fecha_procesamiento",
                  [i \in DOMAIN labelled.rows |-> Time(now)])

column_order ==
    << "fuente_datos", "fecha_procesamiento", "id_registro",
       "empresa_organizacion", "cargo_area", "ciudad", "pais",
       "tecnologia_principal", "framework_herramienta",
       "nivel_experiencia", "salario_usd", "modalidad_tipo",
       "fecha_referencia", "anio_referencia", "edad", "anos_experiencia",
       "nivel_educativo", "certificaciones", "inversion_usd",
       "participantes", "duracion_meses", "satisfaccion_promedio" >>

\* The mutant numbers a job record by the time of its processing.
JobsRecord_stamped(row) ==
    [fuente_datos |-> Str("empleos_tech"),
     fecha_procesamiento |-> Get(row, "fecha_procesamiento"),
     id_registro |-> Get(row, "fecha_procesamiento"),
     salario_usd |-> Get(row, "salario_anual_usd")]

\* the record built from one row of the standardized jobs table
JobsRecord(row) ==
    [fuente_datos |-> Str("empleos_tech"),
     fecha_procesamiento |-> Get(row, "fecha_procesamiento"),
     ciudad |-> Get(row, "ciudad"),
     pais |-> Get(row, "pais"),
     id_registro |-> Get(row, "id_oferta"),
     empresa_organizacion |-> Get(row, "empresa"),
     cargo_area |-> Get(row, "cargo"),
     tecnologia_principal |-> Get(row, "lenguaje"),
     framework_herramienta |-> Get(row, "framework"),
     nivel_experiencia |-> Get(row, "nivel_seniority"),
     salario_usd |-> Get(row, "salario_anual_usd"),
     modalidad_tipo |-> Get(row, "modalidad"),
     fecha_referencia |-> Get(row, "fecha_publicacion"),
     anio_referencia |-> IF "fecha_publicacion_year" \in DOMAIN row
                         THEN Get(row, "fecha_publicacion_year") ELSE Null]

\* the record built from one row of the standardized investment table
InvestmentRecord(row) ==
    [fuente_datos |-> Str("inversiones_tech"),
     fecha_procesamiento |-> Get(row, "fecha_procesamiento"),
     ciudad |-> Get(row, "ciudad"),
     pais |-> Get(row, "pais"),
     id_registro |-> Get(row, "id_programa"),
     empresa_organizacion |-> Get(row, "organizacion"),
     cargo_area |-> Get(row, "area_tecnologica"),
     inversion_usd |-> Get(row, "inversion_usd"),
     participantes |-> Get(row, "participantes"),
     duracion_meses |-> Get(row, "duracion_meses"),
     satisfaccion_promedio |-> Get(row, "satisfaccion_promedio"),
     anio_referencia |-> IF "ano" \in DOMAIN row
                         THEN Get(row, "ano") ELSE Get(row, "año")]

\* The mutant files a profile under the label of the job offers.
ProfilesRecord_as_jobs(row) ==
    [fuente_datos |-> Str("empleos_tech"),
     fecha_procesamiento |-> Get(row, "fecha_procesamiento"),
     id_registro |-> Get(row, "id_persona"),
     salario_usd |-> Get(row, "salario_actual_usd")]

\* the record built from one row of the standardized profiles table
ProfilesRecord(row) ==
    [fuente_datos |-> Str("perfiles_habilidades"),
     fecha_procesamiento |-> Get(row, "fecha_procesamiento"),
     ciudad |-> Get(row, "ciudad"),
     pais |-> Get(row, "pais"),
     id_registro |-> Get(row, "id_persona"),
     edad |-> Get(row, "edad"),
     tecnologia_principal |-> Get(row, "lenguajes_dominio"),
     framework_herramienta |-> Get(row, "frameworks_dominio"),
     certificaciones |-> Get(row, "certificaciones"),
     anos_experiencia |-> Get(row, "anos_experiencia"),
     nivel_educativo |-> Get(row, "nivel_educativo"),
     cargo_area |-> Get(row, "area_trabajo_actual"),
     salario_usd |-> Get(row, "salario_actual_usd")]

\* The mutant skips the column completion: a record keeps its own keys.
UnifiedRow_sparse(record) == record

\* pd.DataFrame(consolidated_records) followed by the column completion and
\* the selection warehouse_df[column_order]: a key a record lacks is null
UnifiedRow(record) ==
    [c \in Range(column_order) |-> IF c \in DOMAIN record THEN record[c] ELSE Null]

\* The mutant concatenates the record lists in the order profiles,
\* investment, jobs.
consolidated_records_profiles_first(jobs_std, investment_std, profiles_std) ==
    [i \in DOMAIN profiles_std.rows |-> ProfilesRecord(profiles_std.rows[i])]
    \o [i \in DOMAIN investment_std.rows |-> InvestmentRecord(investment_std.rows[i])]
    \o [i \in DOMAIN jobs_std.rows |-> JobsRecord(jobs_std.rows[i])]

\* The mutant joins instead of concatenating: it leaves out the investment
\* records.
consolidated_records_joined(jobs_std, investment_std, profiles_std) ==
    [i \in DOMAIN jobs_std.rows |-> JobsRecord(jobs_std.rows[i])]
    \o [i \in DOMAIN profiles_std.rows |-> ProfilesRecord(profiles_std.rows[i])]

\* the three per-source record lists, concatenated in source order
consolidated_records(jobs_std, investment_std, profiles_std) ==
    [i \in DOMAIN jobs_std.rows |-> JobsRecord(jobs_std.rows[i])]
    \o [i \in DOMAIN investment_std.rows |-> InvestmentRecord(investment_std.rows[i])]
    \o [i \in DOMAIN profiles_std.rows |-> ProfilesRecord(profiles_std.rows[i])]

\* t1, t2, t3 are the three readings of pd.Timestamp.now(), one per call of
\* standardize_common_columns
create_unified_schema(jobs, investment, profiles, t1, t2, t3) ==
    LET jobs_std == standardize_common_columns(jobs, "empleos_tech", t1)
        investment_std == standardize_common_columns(investment, "inversiones_tech", t2)
        profiles_std == standardize_common_columns(profiles, "perfiles_habilidades", t3)
        records == consolidated_records(jobs_std, investment_std, profiles_std)
    IN  DataFrame(column_order, [i \in DOMAIN records |-> UnifiedRow(records[i])])


\* pd.cut(x, bins=edges + [inf], labels=labels), right-closed intervals
\* without include_lowest: label i when edges[i] < x <= edges[i+1], the last
\* label when x > the last edge, and no category (NaN) when x <= edges[1]
Cut(x, edges, labels) ==
    IF x <= edges[1] THEN Null
    ELSE LET i == CHOOSE j \in DOMAIN edges :
                     /\ edges[j] < x
                     /\ (j = Len(edges) \/ x <= edges[j + 1])
         IN  Str(labels[i])

salary_bins == << 0, 50000, 75000, 100000, 150000 >>
salary_labels == << "<50K", "50K-75K", "75K-100K", "100K-150K", "150K+" >>
experience_bins == << 0, 2, 5, 10 >>
experience_labels == << "Junior", "Mid", "Senior", "Expert" >>

\* series.fillna(0) of one cell
fillna0(v) == IF notna(v) THEN v.n ELSE 0

\* str.title() on the strings of the model
Title(s) ==
    CASE s = "chile" -> "Chile"
      [] s = "peru" -> "Peru"
      [] s = "mexico" -> "Mexico"
      [] OTHER -> s

\* series.str.title().fillna('No Especificado') of one cell
title_or_default(v) ==
    IF v.k = "str" THEN Str(Title(v.s)) ELSE Str("No Especificado")

\* the clock counts months: Timestamp.month and Timestamp.year
Month(t) == (t % 12) + 1
Year(t) == 2024 + (t \div 12)

\* The mutant buckets the filled value with the lowest edge included: a
\* record without salary lands in the first bucket.
rango_salario_lowest_included(row) ==
    IF fillna0(row["salario_usd"]) = salary_bins[1] THEN Str(salary_labels[1])
    ELSE Cut(fillna0(row["salario_usd"]), salary_bins, salary_labels)

rango_salario(row) == Cut(fillna0(row["salario_usd"]), salary_bins, salary_labels)

nivel_experiencia_grupo(row) ==
    Cut(fillna0(row["anos_experiencia"]), experience_bins, experience_labels)

derived_columns ==
    << "tiene_salario", "rango_salario", "tiene_experiencia",
       "nivel_experiencia_grupo", "pais_normalizado", "ciudad_normalizada",
       "mes_procesamiento", "ano_procesamiento" >>

\* warehouse_df['fecha_procesamiento'].dt raises AttributeError when the
\* column is not datetime-typed, which is the case exactly when the table has
\* no rows (the column was then added as an all-None object column)
add_derived_metrics_raises(df) == Len(df.rows) = 0

\* The mutant keeps the filler: it fills the two columns with 0 before it
\* derives from them.
add_derived_metrics_filled(df) ==
    LET f1 == SetColumn(df, "salario_usd",
                        [i \in DOMAIN df.rows |-> Num(fillna0(df.rows[i]["salario_usd"]))])
        filled == SetColumn(f1, "anos_experiencia",
                            [i \in DOMAIN df.rows |->
                                Num(fillna0(df.rows[i]["anos_experiencia"]))])
        rows == filled.rows
        d1 == SetColumn(filled, "tiene_salario",
                        [i \in DOMAIN rows |-> Bool(notna(df.rows[i]["salario_usd"]))])
        d2 == SetColumn(d1, "rango_salario",
                        [i \in DOMAIN rows |-> rango_salario(rows[i])])
        d3 == SetColumn(d2, "tiene_experiencia",
                        [i \in DOMAIN rows |-> Bool(notna(df.rows[i]["anos_experiencia"]))])
        d4 == SetColumn(d3, "nivel_experiencia_grupo",
                        [i \in DOMAIN rows |-> nivel_experiencia_grupo(rows[i])])
        d5 == SetColumn(d4, "pais_normalizado",
                        [i \in DOMAIN rows |-> title_or_default(rows[i]["pais"])])
        d6 == SetColumn(d5, "ciudad_normalizada",
                        [i \in DOMAIN rows |-> title_or_default(rows[i]["ciudad"])])
        d7 == SetColumn(d6, "mes_procesamiento",
                        [i \in DOMAIN rows |->
                            Num(Month(rows[i]["fecha_procesamiento"].n))])
    IN  SetColumn(d7, "ano_procesamiento",
                  [i \in DOMAIN rows |-> Num(Year(rows[i]["fecha_procesamiento"].n))])

add_derived_metrics(df) ==
    LET rows == df.rows
        d1 == SetColumn(df, "tiene_salario",
                        [i \in DOMAIN rows |-> Bool(notna(rows[i]["salario_usd"]))])
        d2 == SetColumn(d1, "rango_salario",
                        [i \in DOMAIN rows |-> rango_salario(rows[i])])
        d3 == SetColumn(d2, "tiene_experiencia",
                        [i \in DOMAIN rows |-> Bool(notna(rows[i]["anos_experiencia"]))])
        d4 == SetColumn(d3, "nivel_experiencia_grupo",
                        [i \in DOMAIN rows |-> nivel_experiencia_grupo(rows[i])])
        d5 == SetColumn(d4, "pais_normalizado",
                        [i \in DOMAIN rows |-> title_or_default(rows[i]["pais"])])
        d6 == SetColumn(d5, "ciudad_normalizada",
                        [i \in DOMAIN rows |-> title_or_default(rows[i]["ciudad"])])
        d7 == SetColumn(d6, "mes_procesamiento",
                        [i \in DOMAIN rows |->
                            Num(Month(rows[i]["fecha_procesamiento"].n))])
    IN  SetColumn(d7, "ano_procesamiento",
                  [i \in DOMAIN rows |-> Num(Year(rows[i]["fecha_procesamiento"].n))])

\* series.value_counts() of a plain column: the values that occur, counted
value_counts(df, col) ==
    [v \in {df.rows[i][col] : i \in DOMAIN df.rows} |->
        CountIf(df.rows, {i \in DOMAIN df.rows : df.rows[i][col] = v})]

\* series.value_counts() of a categorical column, filtered by pd.notna(k):
\* every category, counted (a category that does not occur counts 0)
categorical_counts(df, col, labels) ==
    [l \in Range(labels) |-> CountIf(df.rows, {i \in DOMAIN df.rows : df.rows[i][col] = Str(l)})]

\* a float as the quotient of two integers; the literal 0 of the summary
Ratio(num, den) == [num |-> num, den |-> den]
Zero == Ratio(0, 1)

\* series.notna().any()
any_notna(df, col) == \E i \in DOMAIN df.rows : notna(df.rows[i][col])

\* series.mean(): the sum of the values that are not null over their number
series_mean(df, col) ==
    Ratio(SumSeq([i \in DOMAIN df.rows |-> fillna0(df.rows[i][col])]),
          CountIf(df.rows, {i \in DOMAIN df.rows : notna(df.rows[i][col])}))

\* the k-th smallest of the values of the column that are not null
series_kth(df, col, k) ==
    LET present == {i \in DOMAIN df.rows : notna(df.rows[i][col])}
        at == CHOOSE i \in present :
                 /\ Cardinality({j \in present : df.rows[j][col].n < df.rows[i][col].n}) < k
                 /\ Cardinality({j \in present : df.rows[j][col].n <= df.rows[i][col].n}) >= k
    IN  df.rows[at][col].n

\* series.median(): the middle value, or the mean of the two middle values
series_median(df, col) ==
    LET n == CountIf(df.rows, {i \in DOMAIN df.rows : notna(df.rows[i][col])})
    IN  IF n % 2 = 1 THEN Ratio(series_kth(df, col, (n + 1) \div 2), 1)
        ELSE Ratio(series_kth(df, col, n \div 2) + series_kth(df, col, (n \div 2) + 1), 2)

NoSummary ==
    [total_registros |-> 0, fecha_generacion |-> Null, fuentes_datos |-> << >>,
     registros_con_salario |-> 0, salario_promedio |-> Zero, salario_mediano |-> Zero,
     distribucion_rangos |-> << >>,
     registros_con_experiencia |-> 0, distribucion_niveles |-> << >>]

generate_warehouse_summary(df, now) ==
    [total_registros |-> Len(df.rows),
     fecha_generacion |-> Time(now),
     fuentes_datos |-> value_counts(df, "fuente_datos"),
     registros_con_salario |->
         CountIf(df.rows, {i \in DOMAIN df.rows :
                              df.rows[i]["tiene_salario"] = Bool(TRUE)}),
     salario_promedio |->
         IF any_notna(df, "salario_usd") THEN series_mean(df, "salario_usd") ELSE Zero,
     salario_mediano |->
         IF any_notna(df, "salario_usd") THEN series_median(df, "salario_usd") ELSE Zero,
     distribucion_rangos |-> categorical_counts(df, "rango_salario", salary_labels),
     registros_con_experiencia |->
         CountIf(df.rows, {i \in DOMAIN df.rows :
                              df.rows[i]["tiene_experiencia"] = Bool(TRUE)}),
     distribucion_niveles |->
         categorical_counts(df, "nivel_experiencia_grupo", experience_labels)]

NoTable == DataFrame(<< >>, << >>)

\* Series.value_counts() hashes the values of the column: a list in
\* tecnologia_principal or framework_herramienta raises TypeError
generate_warehouse_summary_raises(df) ==
    \E i \in DOMAIN df.rows :
        \/ df.rows[i]["tecnologia_principal"].k = "list"
        \/ df.rows[i]["framework_herramienta"].k = "list"

\* create_tech_warehouse: unify, derive, persist, summarize.  t is the
\* sequence of the four clock readings of the call.  The file is written
\* after add_derived_metrics and before the summary.
\* written tells whether to_csv was reached, file what it wrote.
create_tech_warehouse(jobs, investment, profiles, t) ==
    LET unified == create_unified_schema(jobs, investment, profiles, t[1], t[2], t[3])
    IN  IF add_derived_metrics_raises(unified)
        THEN [raised |-> TRUE, unified |-> unified, df |-> NoTable,
              summary |-> NoSummary, written |-> FALSE, file |-> NoTable]
        ELSE LET w == add_derived_metrics(unified)
             IN  IF generate_warehouse_summary_raises(w)
                 THEN [raised |-> TRUE, unified |-> unified, df |-> NoTable,
                       summary |-> NoSummary, written |-> TRUE, file |-> w]
                 ELSE [raised |-> FALSE, unified |-> unified, df |-> w,
                       summary |-> generate_warehouse_summary(w, t[4]),
                       written |-> TRUE, file |-> w]

(***************************************************************************)
(* powerbi_export.py.  Of the exporter the model keeps what it does to the *)
(* table it is handed and whether it returns.                              *)
(***************************************************************************)
\* Timestamp.quarter
Quarter(t) == ((Month(t) - 1) \div 3) + 1

\* a column of the table without one number: the cells are all None/NaN, so
\* groupby(...).agg has no numeric values to average
all_null(df, col) == \A i \in DOMAIN df.rows : ~notna(df.rows[i][col])

\* whether DataFrameGroupBy.agg raises on the mean of salario_usd or edad:
\* never when both columns hold a number, and, depending on the version of
\* the library, raised or not when one of them holds none
aggregation_raises(df) ==
    IF all_null(df, "salario_usd") \/ all_null(df, "edad")
    THEN {TRUE, FALSE} ELSE {FALSE}

\* create_time_metrics_dataset, lines 294-301: the columns it assigns to the
\* table it was handed
create_time_metrics_columns(df) ==
    LET rows == df.rows
        fecha == [i \in DOMAIN rows |->
                     IF "fecha_procesamiento" \in Range(df.columns)
                     THEN rows[i]["fecha_procesamiento"] ELSE Time(0)]
        d1 == SetColumn(df, "fecha", fecha)
        d2 == SetColumn(d1, "año", [i \in DOMAIN rows |-> Num(Year(fecha[i].n))])
        d3 == SetColumn(d2, "mes", [i \in DOMAIN rows |-> Num(Month(fecha[i].n))])
    IN  SetColumn(d3, "trimestre", [i \in DOMAIN rows |-> Num(Quarter(fecha[i].n))])

NoExport == [datasets_created |-> 0]

\* export_for_powerbi: the six datasets are built in the order main, kpis,
\* clusters, geography, technology, time metrics; the first aggregation is
\* in the geography dataset, and the time metrics assign their columns
\* before they aggregate.  raised is the outcome of the aggregations.
export_for_powerbi(df, raised) ==
    IF raised
    THEN [raised |-> TRUE, df |-> df, summary |-> NoExport]
    ELSE [raised |-> FALSE, df |-> create_time_metrics_columns(df),
          summary |-> [datasets_created |-> 6]]


(***************************************************************************)
(* State.                                                                  *)
(***************************************************************************)
VARIABLES
    \* etl_simple.py, main_simple: the three transformed tables, the wall
    \* clock, the position in main_simple, the table of the first build
    \* (PASO 4), the table and summary of the second build (PASO 7) and the
    \* content of config.warehouse_file, and the summary of the PowerBI
    \* export (PASO 8)
    jobs_df, investment_df, profiles_df, clock, pc,
    warehouse_temp_df, warehouse_df, warehouse_summary, warehouse_file,
    powerbi_summary

VARIABLES
    \* data_mining.py: the import flag of the module, the unified table handed
    \* to perform_data_mining_analysis, the position in it, the entries of
    \* analysis_results['analisis_realizados'] in insertion order, the analyses
    \* that reached their library fit, resumen_ejecucion, and the R2 values
    \* (r2, r2_rf) of the models analyze_regression has fitted, in units of
    \* 0.00001
    SKLEARN_AVAILABLE, mining_df, mining_pc, analisis_realizados, library_fits,
    resumen_ejecucion, r2_values

miVars == << SKLEARN_AVAILABLE, mining_df, mining_pc, analisis_realizados,
             library_fits, resumen_ejecucion, r2_values >>

whVars == << jobs_df, investment_df, profiles_df, clock, pc,
             warehouse_temp_df, warehouse_df, warehouse_summary, warehouse_file,
             powerbi_summary >>

\* the validation step of the entry points
VARIABLES entry,               \* "main", "main_simple" or "validator"
          val_pc,
          validation_results,  \* DataValidator.validation_results
          source_reports,      \* what the entry point reads of each report
          etl_metrics          \* the metrics written to the JSON file

valVars == <<entry, val_pc, validation_results, source_reports, etl_metrics>>

VARIABLES
    \* etl_simple.py, main_simple as a whole: the stage about to start (or
    \* "except", or "end"), the stages that have
    \* completed, the stages whose call raises an Exception with the files and
    \* the environment of this run, whether this run has written the metrics
    \* file, and what main_simple returned
    run_stage, completed, raising, metrics_file, result

runVars == <<run_stage, completed, raising, metrics_file, result>>

VARIABLES
    \* limpieza.py, one call of a column operation of the Cleaner: the table
    \* before the call, the operation and the column(s) it was called with,
    \* the table the call returned (the same object, changed in place), and
    \* whether the call is pending, has returned or has raised; for a call of
    \* clean_dataframe, the cleaning_config it was called with and the number
    \* of outliers clean_numeric_column found ("Found N outliers")
    clean_input, clean_call, clean_df, clean_pc, cleaning_config, outlier_count

clVars == <<clean_input, clean_call, clean_df, clean_pc, cleaning_config,
            outlier_count>>

VARIABLES
    \* transformacion.py, the loop of transform_dataframe over text_features:
    \* the table, the table as it was before the last call of
    \* create_features_from_text, the columns the calls so far were made
    \* with, and whether the loop is running
    text_df, text_before, text_calls, text_pc

txVars == <<text_df, text_before, text_calls, text_pc>>

vars == <<whVars, miVars, valVars, runVars, clVars, txVars>>

(***************************************************************************)
(* The input tables of the warehouse specification: the raw CSV tables     *)
(* (headers as in the cleaning configuration of main_simple, or their      *)
(* unaccented spelling) after normalize_column_names.                      *)
(***************************************************************************)
RawRow(cols, vals) == [c \in Range(cols) |-> vals[CHOOSE i \in DOMAIN cols : cols[i] = c]]

JobsHeaders(accented) ==
    << "ID_Oferta", "Empresa", IF accented THEN "País" ELSE "Pais",
       "Lenguaje", "Framework", "Salario_Anual_USD" >>
InvestmentHeaders(accented) ==
    << "ID_Programa", IF accented THEN "País" ELSE "Pais",
       IF accented THEN "Inversión_USD" ELSE "Inversion_USD", "Participantes" >>
ProfilesHeaders(accented) ==
    << "ID_Persona", IF accented THEN "País" ELSE "Pais", "Edad",
       IF accented THEN "Años_Experiencia" ELSE "Anos_Experiencia",
       "Salario_Actual_USD" >>

JobsPool ==
    { << Num(1), Str("Acme"), Str("chile"), Str("Python"), Str("Django"), Num(120000) >>,
      << Num(2), Str("Beta"), Null, Str("Unknown"), Null, Null >> }
InvestmentPool ==
    { << Num(10), Str("peru"), Num(500000), Num(30) >>,
      << Num(11), Str("Unknown"), Null, Null >> }
ProfilesPool ==
    { << Num(20), Str("chile"), Num(30), Num(0), Num(40000) >>,
      << Num(21), Str("mexico"), Null, Num(11), Null >> }

\* a job offer whose Lenguaje cell is a list of languages
ListJobsPool ==
    { << Num(3), Str("Gamma"), Str("peru"), ListCell, Str("Flask"), Num(60000) >> }

\* the transformed tables of n rows over a pool
Tables(headers, pool, n) ==
    { normalize_column_names(
          DataFrame(headers, [i \in DOMAIN vs |-> RawRow(headers, vs[i])])) :
      vs \in [1..n -> pool] }

InitWarehouse ==
    /\ \E accented \in BOOLEAN, j \in 0..MaxRows :
          \E i \in 0..(MaxRows - j) :
             \E p \in 0..(MaxRows - j - i) :
                /\ jobs_df \in Tables(JobsHeaders(accented), JobsPool, j)
                               \cup (IF j = 1
                                     THEN Tables(JobsHeaders(accented), ListJobsPool, 1)
                                     ELSE {})
                /\ investment_df \in Tables(InvestmentHeaders(accented), InvestmentPool, i)
                /\ profiles_df \in Tables(ProfilesHeaders(accented), ProfilesPool, p)
    /\ clock = 0
    /\ pc = "paso4"
    /\ warehouse_temp_df = NoTable
    /\ warehouse_df = NoTable
    /\ warehouse_summary = NoSummary
    /\ warehouse_file = NoTable
    /\ powerbi_summary = NoExport

\* The four clock readings of one call of create_tech_warehouse: the clock
\* never runs backwards and advances by at most one tick during the call.
Readings(now) ==
    { t \in [1..4 -> now..(IF now < MaxClock THEN now + 1 ELSE now)] :
        /\ t[1] = now
        /\ \A i \in 1..3 : t[i] <= t[i + 1] }

\* PASO 4: the first build; its table feeds the mining analysis.  An
\* exception ends main_simple (return False).
Paso4CreateTechWarehouse ==
    /\ pc = "paso4"
    /\ \E t \in Readings(clock) :
          LET r == create_tech_warehouse(jobs_df, investment_df, profiles_df, t)
          IN  /\ clock' = t[4]
              /\ warehouse_file' = IF r.written THEN r.file ELSE warehouse_file
              /\ IF r.raised
                 THEN /\ pc' = "failed"
                      /\ UNCHANGED warehouse_temp_df
                 ELSE /\ pc' = "paso6"
                      /\ warehouse_temp_df' = r.df
    /\ UNCHANGED << jobs_df, investment_df, profiles_df, warehouse_df, warehouse_summary >>
    /\ UNCHANGED powerbi_summary
    /\ UNCHANGED <<miVars, valVars, runVars, clVars, txVars>>

\* PASO 6: every transformed table gets its 'source' column (the tables are
\* then saved one by one).
Paso6AddSource ==
    /\ pc = "paso6"
    /\ jobs_df' = SetColumn(jobs_df, "source",
                           [i \in DOMAIN jobs_df.rows |-> Str("jobs")])
    /\ investment_df' = SetColumn(investment_df, "source",
                           [i \in DOMAIN investment_df.rows |-> Str("investment")])
    /\ profiles_df' = SetColumn(profiles_df, "source",
                           [i \in DOMAIN profiles_df.rows |-> Str("profiles")])
    /\ pc' = "paso7"
    /\ UNCHANGED << clock, warehouse_temp_df, warehouse_df, warehouse_summary,
                    warehouse_file >>
    /\ UNCHANGED powerbi_summary
    /\ UNCHANGED <<miVars, valVars, runVars, clVars, txVars>>

\* PASO 7: the second build, on the same three tables.
Paso7CreateTechWarehouse ==
    /\ pc = "paso7"
    /\ \E t \in Readings(clock) :
          LET r == create_tech_warehouse(jobs_df, investment_df, profiles_df, t)
          IN  /\ clock' = t[4]
              /\ warehouse_file' = IF r.written THEN r.file ELSE warehouse_file
              /\ IF r.raised
                 THEN /\ pc' = "failed"
                      /\ UNCHANGED << warehouse_df, warehouse_summary >>
                 ELSE /\ pc' = "done"
                      /\ warehouse_df' = r.df
                      /\ warehouse_summary' = r.summary
    /\ UNCHANGED << jobs_df, investment_df, profiles_df, warehouse_temp_df >>
    /\ UNCHANGED powerbi_summary
    /\ UNCHANGED <<miVars, valVars, runVars, clVars, txVars>>

\* time passes between the two builds (mining analysis and validation run
\* there)
Tick ==
    /\ pc = "paso6"
    /\ clock < MaxClock
    /\ clock' = clock + 1
    /\ UNCHANGED << jobs_df, investment_df, profiles_df, pc, warehouse_temp_df,
                    warehouse_df, warehouse_summary, warehouse_file >>
    /\ UNCHANGED powerbi_summary
    /\ UNCHANGED <<miVars, valVars, runVars, clVars, txVars>>

\* PASO 8: the PowerBI export of the table of the second build.  An exception
\* ends main_simple (return False).
Paso8ExportForPowerBI ==
    /\ pc = "done"
    /\ \E raised \in aggregation_raises(warehouse_df) :
          LET r == export_for_powerbi(warehouse_df, raised)
          IN  /\ pc' = IF r.raised THEN "failed" ELSE "exported"
              /\ warehouse_df' = r.df
              /\ powerbi_summary' = r.summary
    /\ UNCHANGED << jobs_df, investment_df, profiles_df, clock, warehouse_temp_df,
                    warehouse_summary, warehouse_file >>
    /\ UNCHANGED <<miVars, valVars, runVars, clVars, txVars>>


(***************************************************************************)
(* data_mining.py.  The analyses read the unified table through row        *)
(* filters and counts, so the table is held as a bag of rows; a row is     *)
(* projected on the columns the filters read.  The table comes from        *)
(* create_tech_warehouse, so it has every unified and derived column.      *)
(***************************************************************************)
mining_columns == Range(column_order) \cup Range(derived_columns)

MiningRow(fuente, tecnologia, framework, salario, part, inversion) ==
    [fuente_datos |-> Str(fuente), tecnologia_principal |-> tecnologia,
     framework_herramienta |-> framework, salario_usd |-> salario,
     participantes |-> part, inversion_usd |-> inversion]

\* df[mask] on a bag of rows: mask is the set of the rows selected
BagSelect(B, mask) == [r \in mask \cap DOMAIN B |-> B[r]]

\* len(df)
BagLen(B) == BagCardinality(B)

\* the outcome of a function body: an exception, or a returned result; fit
\* tells whether the body reached its library fit
Raised == [raised |-> TRUE, error |-> "exception", fit |-> TRUE, metrics |-> << >>]
Failure(reason) == [raised |-> FALSE, error |-> reason, fit |-> FALSE, metrics |-> << >>]
Success(metrics) == [raised |-> FALSE, error |-> "", fit |-> TRUE, metrics |-> metrics]

\* The mutant has no except clause: the exception leaves the analysis.
try_except_missing(body, prefix) == body

\* try: <body> except Exception as e: return {'error': prefix + str(e)}
try_except(body, prefix) ==
    IF body.raised
    THEN [raised |-> FALSE, error |-> prefix, fit |-> body.fit, metrics |-> << >>]
    ELSE body

\* frame[column] = values on a frame held as a bag of rows; values gives the
\* cell of each row
AssignColumn(B, column, values) ==
    LET assigned(r) == [c \in (DOMAIN r) \cup {column} |->
                           IF c = column THEN values[r] ELSE r[c]]
    IN  [x \in {assigned(r) : r \in DOMAIN B} |->
            B[CHOOSE r \in DOMAIN B : assigned(r) = x]]

\* The mutant selects without .copy() and the assignment writes through to
\* the rows selected.
table_after_view(df, selection, assigned) == (df (-) selection) (+) assigned

\* warehouse_df[mask].copy(): the table the caller passed, after columns were
\* assigned to the copy of the selection
table_after(df, selection, assigned) == df

\* ---- analyze_associations ----
\* the transaction of one row (lines 48-52)
Transaction(row) ==
    (IF notna(row.tecnologia_principal) /\ row.tecnologia_principal # Str("Unknown")
     THEN {<< "lang", row.tecnologia_principal.s >>} ELSE {})
    \cup
    (IF notna(row.framework_herramienta) /\ row.framework_herramienta # Str("Unknown")
     THEN {<< "fw", row.framework_herramienta.s >>} ELSE {})

\* the rows with both columns non-null (lines 38-41)
tech_data(df) ==
    BagSelect(df, {r \in DOMAIN df : /\ notna(r.tecnologia_principal)
                                     /\ notna(r.framework_herramienta)})

\* The mutant keeps the empty transactions.
transactions_unfiltered(df) == tech_data(df)

\* the rows whose transaction is kept (line 54)
transactions(df) == BagSelect(tech_data(df), {r \in DOMAIN df : Transaction(r) # {}})

\* the number of transactions that contain the itemset
SupportCount(T, itemset) == BagLen(BagSelect(T, {r \in DOMAIN T : itemset \subseteq Transaction(r)}))

\* apriori(min_support=0.1): the non-empty itemsets in at least a tenth of
\* the transactions
frequent_itemsets(T) ==
    LET items == UNION {Transaction(r) : r \in DOMAIN T}
    IN  {S \in (SUBSET items) \ {{}} : 10 * SupportCount(T, S) >= BagLen(T)}

\* association_rules(metric="confidence", min_threshold=0.5): antecedent and
\* consequent split a frequent itemset
rules(T) ==
    {ac \in (frequent_itemsets(T) \X frequent_itemsets(T)) :
        /\ ac[1] \cap ac[2] = {}
        /\ (ac[1] \cup ac[2]) \in frequent_itemsets(T)
        /\ 2 * SupportCount(T, ac[1] \cup ac[2]) >= SupportCount(T, ac[1])}

min_tech_records == 10
min_transactions == 10

analyze_associations_body(df, lib_raises) ==
    IF BagLen(tech_data(df)) < min_tech_records
    THEN Failure("Datos insuficientes para análisis de asociaciones")
    ELSE IF BagLen(transactions(df)) < min_transactions
    THEN Failure("Transacciones insuficientes")
    ELSE IF lib_raises THEN Raised
    ELSE IF frequent_itemsets(transactions(df)) = {}
    THEN [raised |-> FALSE, error |-> "No se encontraron patrones frecuentes",
          fit |-> TRUE, metrics |-> << >>]
    ELSE Success([total_transacciones |-> BagLen(transactions(df)),
                  patrones_frecuentes |-> Cardinality(frequent_itemsets(transactions(df))),
                  reglas_asociacion |-> Cardinality(rules(transactions(df)))])

analyze_associations(available, df, lib_raises) ==
    IF ~available THEN Failure("Librerías no disponibles")
    ELSE try_except(analyze_associations_body(df, lib_raises), "Error en análisis")

\* ---- analyze_clustering ----
\* The mutant counts every row of the table, whatever its source.
profiles_data_unfiltered(df) == df

\* the rows of the profiles (lines 107-109)
profiles_data(df) == BagSelect(df, {r \in DOMAIN df : r.fuente_datos = Str("perfiles_habilidades")})

min_profiles == 50

clustering_features ==
    (IF "edad" \in mining_columns THEN << "edad" >> ELSE << >>)
    \o (IF "salario_usd" \in mining_columns THEN << "salario_usd" >> ELSE << >>)
    \o (IF "pais_normalizado" \in mining_columns THEN << "pais" >> ELSE << >>)

Min(a, b) == IF a < b THEN a ELSE b
Max(a, b) == IF a > b THEN a ELSE b

\* The mutant rounds the twenties up.
n_clusters_rounded_up(n) ==
    IF Min(5, (n + 19) \div 20) < 2 THEN 2 ELSE Min(5, (n + 19) \div 20)

n_clusters(n) == IF Min(5, n \div 20) < 2 THEN 2 ELSE Min(5, n \div 20)

analyze_clustering_body(df, lib_raises) ==
    IF BagLen(profiles_data(df)) < min_profiles
    THEN Failure("Datos insuficientes para clustering")
    ELSE IF Len(clustering_features) < 2
    THEN Failure("Características insuficientes para clustering")
    ELSE IF lib_raises THEN Raised
    ELSE Success([num_clusters |-> n_clusters(BagLen(profiles_data(df))),
                  caracteristicas_usadas |-> clustering_features,
                  clusters |-> 1..n_clusters(BagLen(profiles_data(df)))])

\* line 147, profiles_data['cluster'] = clusters, reached when KMeans has
\* fitted; the profiles of the table are equal rows, which KMeans puts in
\* one cluster
table_after_clustering(df, outcome) ==
    IF outcome.error = "" /\ ~outcome.raised
    THEN table_after(df, profiles_data(df),
                     AssignColumn(profiles_data(df), "cluster",
                                 [r \in DOMAIN profiles_data(df) |-> Num(0)]))
    ELSE df

analyze_clustering(available, df, lib_raises) ==
    IF ~available THEN Failure("Librerías no disponibles")
    ELSE try_except(analyze_clustering_body(df, lib_raises), "Error en clustering")


\* ---- analyze_regression ----
\* The mutant does not ask for the number of participants.
investment_data_any_participants(df) ==
    BagSelect(df, {r \in DOMAIN df : /\ r.fuente_datos = Str("inversiones_tech")
                                     /\ notna(r.inversion_usd)})

\* the investment rows with both columns non-null (lines 191-195)
investment_data(df) ==
    BagSelect(df, {r \in DOMAIN df : /\ r.fuente_datos = Str("inversiones_tech")
                                     /\ notna(r.participantes)
                                     /\ notna(r.inversion_usd)})

min_investment == 20
min_training_rows == 10

regression_features ==
    (IF "inversion_usd" \in mining_columns THEN << "inversion_usd" >> ELSE << >>)
    \o (IF "duracion_meses" \in mining_columns THEN << "duracion_meses" >> ELSE << >>)
    \o (IF "satisfaccion_promedio" \in mining_columns
        THEN << "satisfaccion_promedio" >> ELSE << >>)

\* The mutant takes the limits in.
precision_label_inclusive(r2) ==
    IF r2 >= 70000 THEN "Alta" ELSE IF r2 >= 50000 THEN "Media" ELSE "Baja"

\* 'Alta' if r2 > 0.7 else 'Media' if r2 > 0.5 else 'Baja'; scores in units
\* of 0.00001
precision_label(r2) ==
    IF r2 > 70000 THEN "Alta" ELSE IF r2 > 50000 THEN "Media" ELSE "Baja"

\* round(r2, 4), in units of 0.0001; no score of the model lies half-way
round4(r2) == (r2 + 5) \div 10

\* the scores (r2 of the linear model, r2 of the forest), in units of
\* 0.00001, that the fitted models may reach; R2 is negative for a model
\* worse than the mean
RegressionScores ==
    { << 70004, 70000 >>, << 70000, 70004 >>, << 50000, 50000 >>, << 50001, -20000 >> }

\* score is the pair of R2 values the two fitted models reach
analyze_regression_body(df, lib_raises, score) ==
    IF BagLen(investment_data(df)) < min_investment
    THEN Failure("Datos insuficientes para regresión")
    ELSE IF Len(regression_features) = 0
    THEN Failure("No hay características numéricas para regresión")
    ELSE IF BagLen(investment_data(df)) < min_training_rows
    THEN Failure("Datos insuficientes para entrenamiento")
    ELSE IF lib_raises THEN Raised
    ELSE Success([modelo_lineal |-> [r2_score |-> round4(score[1]),
                                     precision |-> precision_label(score[1])],
                  modelo_random_forest |-> [r2_score |-> round4(score[2]),
                                            precision |-> precision_label(score[2])],
                  mejor_modelo |-> IF score[2] > score[1] THEN "Random Forest"
                                   ELSE "Regresión Lineal"])

analyze_regression(available, df, lib_raises, score) ==
    IF ~available THEN Failure("Librerías no disponibles")
    ELSE try_except(analyze_regression_body(df, lib_raises, score), "Error en regresión")

\* ---- analyze_classification ----
jobs_data(df) ==
    BagSelect(df, {r \in DOMAIN df : /\ r.fuente_datos = Str("empleos_tech")
                                     /\ notna(r.salario_usd)})

min_jobs == 50

\* the k-th smallest salary of a non-empty bag of rows
KthSalary(B, k) ==
    CHOOSE v \in {r.salario_usd.n : r \in DOMAIN B} :
        /\ BagLen(BagSelect(B, {r \in DOMAIN B : r.salario_usd.n <= v})) >= k
        /\ BagLen(BagSelect(B, {r \in DOMAIN B : r.salario_usd.n < v})) < k

\* twice the median of the salaries (the median of an even number of values
\* is the mean of the two middle ones)
TwiceMedian(B) ==
    LET n == BagLen(B)
    IN  IF n % 2 = 1 THEN 2 * KthSalary(B, (n + 1) \div 2)
        ELSE KthSalary(B, n \div 2) + KthSalary(B, (n \div 2) + 1)

\* The mutant takes the median in.
alta_demanda_from_median(B, row) == IF 2 * row.salario_usd.n >= TwiceMedian(B) THEN 1 ELSE 0

\* alta_demanda = (salario_usd > median).astype(int)
alta_demanda(B, row) == IF 2 * row.salario_usd.n > TwiceMedian(B) THEN 1 ELSE 0

classification_features ==
    (IF "tecnologia_principal" \in mining_columns
     THEN << "tecnologia_principal" >> ELSE << >>)
    \o (IF "pais_normalizado" \in mining_columns THEN << "pais" >> ELSE << >>)
    \o (IF "nivel_experiencia" \in mining_columns
        THEN << "nivel_experiencia" >> ELSE << >>)

\* 'Alta' if accuracy > 0.8 else 'Media' if accuracy > 0.6 else 'Baja'
calidad_label(acc) == IF acc > 80 THEN "Alta" ELSE IF acc > 60 THEN "Media" ELSE "Baja"

\* the accuracies (forest, logistic regression), in percent, that the fitted
\* models may reach
ClassificationScores == { << 81, 80 >>, << 60, 61 >>, << 80, 80 >> }

analyze_classification_body(df, lib_raises, score) ==
    IF BagLen(jobs_data(df)) < min_jobs
    THEN Failure("Datos insuficientes para clasificación")
    ELSE IF Len(classification_features) = 0
    THEN Failure("No hay características para clasificación")
    ELSE IF Cardinality({alta_demanda(jobs_data(df), r) : r \in DOMAIN jobs_data(df)}) < 2
    THEN Failure("No hay variabilidad suficiente en la variable objetivo")
    ELSE IF lib_raises THEN Raised
    ELSE Success([modelo_random_forest |-> [precision |-> score[1],
                                            calidad |-> calidad_label(score[1])],
                  modelo_logistic_regression |-> [precision |-> score[2],
                                                  calidad |-> calidad_label(score[2])],
                  mejor_modelo |-> IF score[1] > score[2] THEN "Random Forest"
                                   ELSE "Regresión Logística"])

\* line 283, jobs_data['alta_demanda'] = ..., reached once the libraries are
\* there and the table has its 50 salaried jobs
table_after_classification(available, df) ==
    IF available /\ BagLen(jobs_data(df)) >= min_jobs
    THEN table_after(df, jobs_data(df),
                     AssignColumn(jobs_data(df), "alta_demanda",
                                  [r \in DOMAIN jobs_data(df) |->
                                      Num(alta_demanda(jobs_data(df), r))]))
    ELSE df

analyze_classification(available, df, lib_raises, score) ==
    IF ~available THEN Failure("Librerías no disponibles")
    ELSE try_except(analyze_classification_body(df, lib_raises, score),
                    "Error en clasificación")


(***************************************************************************)
(* perform_data_mining_analysis, one step per analysis call.               *)
(***************************************************************************)
\* the row counts of a table are drawn at and around a program threshold
CountsNear(threshold) == {0} \cup ((threshold - Margin)..(threshold + Margin))

ProfileRow == MiningRow("perfiles_habilidades", Str("Python"), Str("Django"),
                        Num(40000), Null, Null)
JobHighRow == MiningRow("empleos_tech", Str("Python"), Str("Django"),
                        Num(120000), Null, Null)
JobLowRow == MiningRow("empleos_tech", Str("Unknown"), Str("Unknown"),
                       Num(50000), Null, Null)
JobNoSalaryRow == MiningRow("empleos_tech", Null, Str("React"), Null, Null, Null)
InvestmentRow == MiningRow("inversiones_tech", Null, Null, Null, Num(30), Num(500000))
InvestmentOpenRow == MiningRow("inversiones_tech", Null, Null, Null, Null, Num(500000))

\* the unified table with p profile rows, h and l job rows of high and low
\* salary, i complete investment rows, and one job row without salary and one
\* investment row without participants
MiningTable(p, h, l, i) ==
    LET count == (ProfileRow :> p) @@ (JobHighRow :> h) @@ (JobLowRow :> l)
                 @@ (InvestmentRow :> i) @@ (JobNoSalaryRow :> 1)
                 @@ (InvestmentOpenRow :> 1)
    IN  [r \in {x \in DOMAIN count : count[x] > 0} |-> count[r]]

\* the numbers of profiles of the tables: at and around the threshold, and
\* at and just below the further multiples of twenty
ProfileCounts ==
    CountsNear(min_profiles)
    \cup { 20 * k - 1 : k \in 3..MaxProfileScores }
    \cup { 20 * k : k \in 3..MaxProfileScores }

NoResumen == [analisis_exitosos |-> 0, total_analisis |-> 0, tasa_exito |-> ""]

InitMining ==
    /\ SKLEARN_AVAILABLE \in BOOLEAN
    /\ \E p \in ProfileCounts, h \in CountsNear(min_transactions),
          l \in CountsNear(min_jobs), i \in CountsNear(min_investment) :
             mining_df = MiningTable(p, h, l, i)
    /\ mining_pc = "asociaciones"
    /\ analisis_realizados = << >>
    /\ library_fits = {}
    /\ resumen_ejecucion = NoResumen
    /\ r2_values = << >>

\* analysis_results['analisis_realizados'][nombre] = <the analysis' return
\* value>; an exception that leaves the analysis leaves the orchestrator too
Record(nombre, outcome, next) ==
    IF outcome.raised
    THEN /\ mining_pc' = "raised"
         /\ UNCHANGED << analisis_realizados, library_fits >>
    ELSE /\ mining_pc' = next
         /\ analisis_realizados' =
               Append(analisis_realizados,
                      [nombre |-> nombre, error |-> outcome.error,
                       metrics |-> outcome.metrics])
         /\ library_fits' = IF outcome.fit THEN library_fits \cup {nombre}
                            ELSE library_fits

AnalyzeAssociations ==
    /\ mining_pc = "asociaciones"
    /\ \E lib_raises \in BOOLEAN :
          Record("asociaciones",
                 analyze_associations(SKLEARN_AVAILABLE, mining_df, lib_raises),
                 "clustering")
    /\ UNCHANGED << SKLEARN_AVAILABLE, mining_df, resumen_ejecucion, r2_values >>
    /\ UNCHANGED <<whVars, valVars, runVars, clVars, txVars>>

AnalyzeClustering ==
    /\ mining_pc = "clustering"
    /\ \E lib_raises \in BOOLEAN :
          LET outcome == analyze_clustering(SKLEARN_AVAILABLE, mining_df, lib_raises)
          IN  /\ Record("clustering", outcome, "regresion")
              /\ mining_df' = table_after_clustering(mining_df, outcome)
    /\ UNCHANGED << SKLEARN_AVAILABLE, resumen_ejecucion, r2_values >>
    /\ UNCHANGED <<whVars, valVars, runVars, clVars, txVars>>

AnalyzeRegression ==
    /\ mining_pc = "regresion"
    /\ \E lib_raises \in BOOLEAN, score \in RegressionScores :
          LET outcome == analyze_regression(SKLEARN_AVAILABLE, mining_df,
                                            lib_raises, score)
          IN  /\ Record("regresion", outcome, "clasificacion")
              /\ r2_values' = IF outcome.error = "" /\ ~outcome.raised THEN score
                               ELSE r2_values
    /\ UNCHANGED << SKLEARN_AVAILABLE, mining_df, resumen_ejecucion >>
    /\ UNCHANGED <<whVars, valVars, runVars, clVars, txVars>>

AnalyzeClassification ==
    /\ mining_pc = "clasificacion"
    /\ \E lib_raises \in BOOLEAN, score \in ClassificationScores :
          Record("clasificacion",
                 analyze_classification(SKLEARN_AVAILABLE, mining_df, lib_raises, score),
                 "resumen")
    /\ mining_df' = table_after_classification(SKLEARN_AVAILABLE, mining_df)
    /\ UNCHANGED << SKLEARN_AVAILABLE, resumen_ejecucion, r2_values >>
    /\ UNCHANGED <<whVars, valVars, runVars, clVars, txVars>>

\* f"{x:.1f}%" of a number given in tenths
FormatPercent(tenths) == ToString(tenths \div 10) \o "." \o ToString(tenths % 10) \o "%"

\* The mutant counts every entry, with or without an error.
successful_analyses_all(entries) == Len(entries)

successful_analyses(entries) == CountIf(entries, {i \in DOMAIN entries : entries[i].error = ""})

\* lines 380-390: the execution summary; the report is returned
Summarize ==
    /\ mining_pc = "resumen"
    /\ resumen_ejecucion' =
          [analisis_exitosos |-> successful_analyses(analisis_realizados),
           total_analisis |-> 4,
           tasa_exito |->
               FormatPercent((successful_analyses(analisis_realizados) * 1000) \div 4)]
    /\ mining_pc' = "returned"
    /\ UNCHANGED << SKLEARN_AVAILABLE, mining_df, analisis_realizados, library_fits,
                    r2_values >>
    /\ UNCHANGED <<whVars, valVars, runVars, clVars, txVars>>

IdleMining ==
    /\ SKLEARN_AVAILABLE = TRUE
    /\ mining_df = EmptyBag
    /\ mining_pc = "idle"
    /\ analisis_realizados = << >>
    /\ library_fits = {}
    /\ resumen_ejecucion = NoResumen
    /\ r2_values = << >>

IdleWarehouse ==
    /\ jobs_df = NoTable
    /\ investment_df = NoTable
    /\ profiles_df = NoTable
    /\ clock = 0
    /\ pc = "idle"
    /\ warehouse_temp_df = NoTable
    /\ warehouse_df = NoTable
    /\ warehouse_summary = NoSummary
    /\ warehouse_file = NoTable
    /\ powerbi_summary = NoExport


(***************************************************************************)
(* validaciones.py.  The validator reads a table through its column list,  *)
(* its row count and per-column counts, so a validated table is held as    *)
(* those: total rows, non-null cells per column, rows outside the range of *)
(* a range rule per column, and duplicated rows.                           *)
(***************************************************************************)
ValidationTable(cols, total, nonnull, out_of_range, duplicated) ==
    [columns |-> cols, total |-> total, nonnull |-> nonnull,
     out_of_range |-> out_of_range, duplicated |-> duplicated]

\* config.py
min_records_threshold == 100
max_null_percentage == 50
duplicate_threshold == 5
\* validate_completeness, line 277
completeness_threshold == 80

\* round(num / den, 0) of a non-negative fraction; a fraction that lies
\* exactly between two integers is a float next to the tie, and rounds the
\* way tie says
RoundDiv(num, den, tie) ==
    LET q == num \div den
        r == num % den
    IN  IF 2 * r < den THEN q
        ELSE IF 2 * r > den THEN q + 1
        ELSE IF tie = "up" THEN q + 1 ELSE q

\* ---- validate_schema: expected is the set of the expected column names ----
validate_schema(df, expected) ==
    [status |-> IF expected \ Range(df.columns) # {} THEN "failed" ELSE "passed",
     errors |-> IF expected \ Range(df.columns) # {}
                THEN {"Missing columns"} ELSE {},
     warnings |-> IF Range(df.columns) \ expected # {}
                  THEN {"Extra columns found"} ELSE {}]

\* ---- validate_data_quality: the tagged checks of quality_checks ----
quality_checks(df) ==
    LET high_missing == {c \in Range(df.columns) :
                            df.total > 0 /\
                            100 * (df.total - df.nonnull[c]) > max_null_percentage * df.total}
    IN  [check \in {"min_records"}
                   \cup {c \o "_missing" : c \in high_missing}
                   \cup (IF df.total > 0 /\
                            100 * df.duplicated > duplicate_threshold * df.total
                         THEN {"duplicates"} ELSE {}) |->
            IF check = "min_records"
            THEN (IF df.total < min_records_threshold THEN "failed" ELSE "passed")
            ELSE "warning"]

\* consistency_checks stays empty: no column of the tables has one of the
\* names _validate_data_consistency looks for, nor a value above 1e6
validate_data_quality(df) ==
    [total_records |-> df.total,
     columns |-> Len(df.columns),
     quality_checks |-> quality_checks(df),
     consistency_checks |-> << >>]

\* ---- validate_business_rules: rules is a sequence of range rules ----
\* the result of one range rule on a column of the table: the percentage of
\* the violations divides by len(df), and the ZeroDivisionError of an empty
\* table is caught and tagged 'error'
range_rule_status(df, column) ==
    IF df.total = 0 THEN "error"
    ELSE IF df.out_of_range[column] = 0 THEN "passed" ELSE "failed"

RuleNamed(business_rules, name) == business_rules[CHOOSE i \in DOMAIN business_rules : business_rules[i].name = name]

\* a rule whose column the table lacks leaves no result
rule_results(df, business_rules) ==
    [name \in {business_rules[i].name : i \in {j \in DOMAIN business_rules :
                                        business_rules[j].column \in Range(df.columns)}} |->
        range_rule_status(df, RuleNamed(business_rules, name).column)]

validate_business_rules(df, business_rules) ==
    LET results == rule_results(df, business_rules)
    IN  [status |-> IF \E name \in DOMAIN results : results[name] = "failed"
                    THEN "failed"
                    ELSE IF \E name \in DOMAIN results : results[name] = "error"
                    THEN "error" ELSE "passed",
         rule_results |-> results]

\* ---- validate_completeness ----
\* the status after the loop over required_columns, taken in the order of the
\* list: each column assigns the status again
RECURSIVE completeness_status(_, _, _)
completeness_status(df, required_columns, status) ==
    IF required_columns = <<>> THEN status
    ELSE LET column == Head(required_columns)
         IN  completeness_status(df, Tail(required_columns),
                IF column \in Range(df.columns)
                THEN (IF df.total = 0 \/
                         100 * df.nonnull[column] < completeness_threshold * df.total
                      THEN "warning" ELSE status)
                ELSE "failed")

\* completeness of one column in hundredths of a per cent
column_completeness(df, column, tie) ==
    IF column \in Range(df.columns)
    THEN [completeness_percentage |->
              IF df.total > 0 THEN RoundDiv(10000 * df.nonnull[column], df.total, tie)
              ELSE 0,
          non_null_count |-> df.nonnull[column],
          total_count |-> df.total]
    ELSE [completeness_percentage |-> 0, status |-> "missing_column"]

\* sum of the non-null counts of the required columns the table has
RECURSIVE total_non_null(_, _)
total_non_null(df, required_columns) ==
    IF required_columns = <<>> THEN 0
    ELSE (IF Head(required_columns) \in Range(df.columns)
          THEN df.nonnull[Head(required_columns)] ELSE 0)
         + total_non_null(df, Tail(required_columns))

\* completeness_score in hundredths of a per cent
completeness_score(df, required_columns, tie) ==
    IF required_columns = <<>> \/ df.total = 0 THEN 0
    ELSE RoundDiv(10000 * total_non_null(df, required_columns),
                  df.total * Len(required_columns), tie)

validate_completeness(df, required_columns, tie) ==
    [status |-> completeness_status(df, required_columns, "passed"),
     completeness_score |-> completeness_score(df, required_columns, tie),
     column_completeness |->
        [column \in Range(required_columns) |-> column_completeness(df, column, tie)]]

\* ---- generate_validation_report ----
\* a validation_config: schema and business_rules are skipped when empty,
\* required_columns falls back on the columns of the table when the key is
\* not given
ValidationConfig(schema, business_rules, has_required, required_columns) ==
    [schema |-> schema, business_rules |-> business_rules,
     has_required |-> has_required, required_columns |-> required_columns]

NoConfig == ValidationConfig({}, <<>>, FALSE, <<>>)

\* the sections of the report before overall_status is added
report_sections(df, validation_config, tie) ==
    [dataset_info |-> [rows |-> df.total, columns |-> Len(df.columns),
                       column_names |-> df.columns],
     quality_validation |-> validate_data_quality(df),
     completeness_validation |->
        validate_completeness(df,
            IF validation_config.has_required
            THEN validation_config.required_columns ELSE df.columns, tie)]
    @@ (IF validation_config.schema # {}
        THEN [schema_validation |-> validate_schema(df, validation_config.schema)]
        ELSE <<>>)
    @@ (IF validation_config.business_rules # <<>>
        THEN [business_rules_validation |->
                 validate_business_rules(df, validation_config.business_rules)]
        ELSE <<>>)

\* the statuses the loop over report.items() collects
statuses(report) ==
    {report[validation_type].status :
        validation_type \in {k \in DOMAIN report : "status" \in DOMAIN report[k]}}

overall_status(report) ==
    IF "failed" \in statuses(report) THEN "failed"
    ELSE IF "warning" \in statuses(report) THEN "warning"
    ELSE "passed"

generate_validation_report(df, validation_config, tie) ==
    LET report == report_sections(df, validation_config, tie)
    IN  report @@ [overall_status |-> overall_status(report)]

validate_dataframe(df, validation_config, tie) ==
    generate_validation_report(df, validation_config, tie)

(***************************************************************************)
(* The validation step of the entry points (etl_main.main, PASO 5 of        *)
(* etl_simple.main_simple) and the metrics they write, and a caller that   *)
(* uses the validator directly.                                            *)
(***************************************************************************)
NoReport == [overall_status |-> "none"]
NoMetrics == [puntuacion_calidad_datos |-> -1]

\* the sources an entry point validates, in order
Sources(e) ==
    IF e = "main" THEN <<"empleos", "inversiones">>
    ELSE <<"empleos", "inversiones", "perfiles">>

TextColumn(source) ==
    CASE source = "empleos" -> "empresa"
      [] source = "inversiones" -> "organización"
      [] source = "perfiles" -> "país"

NumericColumn(source) ==
    CASE source = "empleos" -> "salario_anual_usd"
      [] source = "inversiones" -> "inversión_usd"
      [] source = "perfiles" -> "edad"

RangeRule(name, column) == [name |-> name, type |-> "range", column |-> column]

\* the validation_config the entry points build for a source
SourceConfig(source, df) ==
    CASE source = "empleos" ->
            ValidationConfig({},
                <<RangeRule("salary_positive",
                            IF "salario_anual_usd" \in Range(df.columns)
                            THEN "salario_anual_usd" ELSE "Salario_Anual_USD")>>,
                TRUE, df.columns)
      [] source = "inversiones" -> NoConfig
      [] source = "perfiles" ->
            ValidationConfig({},
                <<RangeRule("age_realistic",
                            IF "edad" \in Range(df.columns) THEN "edad" ELSE "Edad"),
                  RangeRule("experience_realistic",
                            IF "años_experiencia" \in Range(df.columns)
                            THEN "años_experiencia" ELSE "Años_Experiencia")>>,
                TRUE, df.columns)

\* non-null counts of a column of a table of total rows: none, all, and the
\* counts around the completeness threshold
NonNullCounts(total) ==
    {0, total} \cup
    {c \in ((completeness_threshold * total) \div 100 - Margin) ..
           ((completeness_threshold * total) \div 100 + Margin) :
        0 <= c /\ c <= total}

\* what varies in a table of total rows: the non-null cells of its numeric
\* column, the rows outside the range of a rule (non-null ones), and the
\* duplicated rows (none or one in ten)
TableShapes(total) ==
    {shape \in NonNullCounts(total) \X {0, 1} \X {0, total \div 10} :
        shape[2] <= shape[1]}

\* the tables of a source: with or without its text column, which is
\* complete; the numeric column holds the nulls and the out-of-range values
SourceTables(source) ==
    LET text == TextColumn(source)
        numeric == NumericColumn(source)
    IN  UNION {{ValidationTable(cols, total,
                    [c \in Range(cols) |-> IF c = text THEN total ELSE shape[1]],
                    [c \in Range(cols) |-> IF c = text THEN 0 ELSE shape[2]],
                    shape[3]) :
                  cols \in {<<text, numeric>>, <<numeric>>},
                  shape \in TableShapes(total)} :
               total \in CountsNear(min_records_threshold)}

\* the tables an entry point validates: a table of min_records_threshold
\* rows with any of the counts above, or a complete table of any size
EntryTables(source) ==
    {df \in SourceTables(source) :
        \/ df.total = min_records_threshold
        \/ df.nonnull[NumericColumn(source)] = df.total}

\* the configurations of a direct caller validating a table of job offers
RequiredColumnLists ==
    {<<>>, <<"empresa">>, <<"salario_anual_usd">>,
     <<"empresa", "salario_anual_usd">>, <<"salario_anual_usd", "empresa">>}

CallerConfigs ==
    {ValidationConfig(schema, business_rules, has_required, required_columns) :
        schema \in {{}, {"empresa", "salario_anual_usd"}},
        business_rules \in {<<>>, <<RangeRule("salary_positive", "salario_anual_usd")>>},
        has_required \in {TRUE},
        required_columns \in RequiredColumnLists}
    \cup
    {ValidationConfig(schema, business_rules, FALSE, <<>>) :
        schema \in {{}, {"empresa", "salario_anual_usd"}},
        business_rules \in {<<>>, <<RangeRule("salary_positive", "salario_anual_usd")>>}}

InitValidation ==
    /\ entry \in {"main", "main_simple", "validator"}
    /\ val_pc = "validate"
    /\ validation_results = NoReport
    /\ source_reports = <<>>
    /\ etl_metrics = NoMetrics

\* the entry point validates its next source
ValidateSource ==
    /\ entry \in {"main", "main_simple"}
    /\ val_pc = "validate"
    /\ Len(source_reports) < Len(Sources(entry))
    /\ LET source == Sources(entry)[Len(source_reports) + 1]
       IN  \E df \in EntryTables(source), tie \in {"down", "up"} :
              LET report == validate_dataframe(df, SourceConfig(source, df), tie)
              IN  /\ validation_results' = report
                  /\ source_reports' = Append(source_reports,
                        [source |-> source,
                         completeness_score |->
                             report.completeness_validation.completeness_score,
                         overall_status |-> report.overall_status])
    /\ UNCHANGED <<entry, val_pc, etl_metrics>>
    /\ UNCHANGED <<whVars, miVars, runVars, clVars, txVars>>

\* The mutant takes the thresholds as inclusive.
estado_general_inclusive(total, count) ==
    IF total >= 9000 * count THEN "EXCELENTE"
    ELSE IF total >= 8000 * count THEN "BUENO"
    ELSE IF total >= 7000 * count THEN "REGULAR"
    ELSE "NECESITA_MEJORA"

\* estado_general of resumen_calidad: total is the sum of the scores of
\* count sources, in hundredths
estado_general(total, count) ==
    IF total > 9000 * count THEN "EXCELENTE"
    ELSE IF total > 8000 * count THEN "BUENO"
    ELSE IF total > 7000 * count THEN "REGULAR"
    ELSE "NECESITA_MEJORA"

\* The mutant truncates the mean to two decimals.
puntuacion_calidad_datos_truncated(scores, tie) ==
    SumSeq(scores) \div Len(scores)

\* round(data_quality_score, 2), in hundredths
puntuacion_calidad_datos(scores, tie) ==
    RoundDiv(SumSeq(scores), Len(scores), tie)

\* the entry point computes data_quality_score and writes etl_metrics
WriteMetrics ==
    /\ entry \in {"main", "main_simple"}
    /\ val_pc = "validate"
    /\ Len(source_reports) = Len(Sources(entry))
    /\ LET scores == [i \in DOMAIN source_reports |->
                         source_reports[i].completeness_score]
       IN  \E tie \in {"down", "up"} :
              etl_metrics' =
                 [puntuacion_calidad_datos |-> puntuacion_calidad_datos(scores, tie),
                  resultados_validacion |->
                     [i \in DOMAIN source_reports |-> source_reports[i].overall_status],
                  estado_general |-> estado_general(SumSeq(scores), Len(scores))]
    /\ val_pc' = "written"
    /\ UNCHANGED <<entry, validation_results, source_reports>>
    /\ UNCHANGED <<whVars, miVars, runVars, clVars, txVars>>

\* a direct caller validates a table of job offers under a configuration
CallValidateDataframe ==
    /\ entry = "validator"
    /\ val_pc = "validate"
    /\ \E df \in SourceTables("empleos"), validation_config \in CallerConfigs,
          tie \in {"down", "up"} :
          validation_results' = validate_dataframe(df, validation_config, tie)
    /\ val_pc' = "returned"
    /\ UNCHANGED <<entry, source_reports, etl_metrics>>
    /\ UNCHANGED <<whVars, miVars, runVars, clVars, txVars>>

IdleValidation ==
    /\ entry = "main_simple"
    /\ val_pc = "idle"
    /\ validation_results = NoReport
    /\ source_reports = <<>>
    /\ etl_metrics = NoMetrics

(***************************************************************************)
(* etl_simple.py, main_simple as a sequence of stages inside one           *)
(* try/except.  What a stage computes is in the specifications above;      *)
(* here a stage completes or raises.                                       *)
(***************************************************************************)
\* the stages in the order of the statements of main_simple
stage_order ==
    << "extract", "clean", "transform", "warehouse_temp", "mining", "validation",
       "save", "warehouse", "powerbi", "metrics" >>

\* the position of a stage in the order of main_simple
StageIndex(name) == CHOOSE i \in DOMAIN stage_order : stage_order[i] = name

\* the statement after a stage that completed
next_stage(name) ==
    IF StageIndex(name) = Len(stage_order) THEN "end"
    ELSE stage_order[StageIndex(name) + 1]

\* The mutant catches the exception inside the stage and goes on.
on_exception_continue(name) == next_stage(name)

\* an Exception raised in the try block: control goes to the except clause
\* of line 237
on_exception(name) == "except"

InitRun ==
    /\ run_stage = stage_order[1]
    /\ completed = << >>
    /\ raising \in SUBSET Range(stage_order)
    /\ metrics_file = FALSE
    /\ result = "running"

\* one stage of the try block runs to its end or raises; the last stage,
\* lines 205-206, writes the metrics file
RunStage ==
    /\ run_stage \in Range(stage_order)
    /\ IF run_stage \in raising
       THEN /\ run_stage' = on_exception(run_stage)
            /\ UNCHANGED << completed, metrics_file >>
       ELSE /\ run_stage' = next_stage(run_stage)
            /\ completed' = Append(completed, run_stage)
            /\ metrics_file' = (metrics_file \/ run_stage = "metrics")
    /\ UNCHANGED << raising, result >>
    /\ UNCHANGED <<whVars, miVars, valVars, clVars, txVars>>

\* line 235: return True
ReturnTrue ==
    /\ run_stage = "end"
    /\ result = "running"
    /\ result' = "True"
    /\ UNCHANGED << run_stage, completed, raising, metrics_file >>
    /\ UNCHANGED <<whVars, miVars, valVars, clVars, txVars>>

\* lines 237-239: except Exception: log and return False
ReturnFalse ==
    /\ run_stage = "except"
    /\ result = "running"
    /\ result' = "False"
    /\ UNCHANGED << run_stage, completed, raising, metrics_file >>
    /\ UNCHANGED <<whVars, miVars, valVars, clVars, txVars>>

IdleRun ==
    /\ run_stage = "idle"
    /\ completed = << >>
    /\ raising = {}
    /\ metrics_file = FALSE
    /\ result = "idle"

(***************************************************************************)
(* limpieza.py.  A column operation of the Cleaner on a table read from a  *)
(* CSV file whose columns hold text (object dtype) or nothing.             *)
(***************************************************************************)
\* The mutant never finds a column missing.
column_found_always(df, column) == TRUE

\* the guard of the column operations: column in df.columns
column_found(df, column) == column \in Range(df.columns)

\* df[column] = <the cells converted>, or KeyError when the column is read
\* and is not in the table
convert_column(df, column, converted) ==
    IF column \in Range(df.columns)
    THEN [raised |-> FALSE,
          df |-> SetColumn(df, column,
                           [i \in DOMAIN df.rows |-> converted[df.rows[i][column]]])]
    ELSE [raised |-> TRUE, df |-> df]

\* the cells of the tables of the model
CleanCells == {Str(" ana  paz "), Str("ana paz"), Str("ANA@X.IO "), Null}

\* astype(str), str.strip(), whitespace runs to one blank, 'nan' back to NaN
text_cleaned(v) ==
    CASE v = Str(" ana  paz ") -> Str("ana paz")
      [] v = Str("ana paz") -> Str("ana paz")
      [] v = Str("ANA@X.IO ") -> Str("ANA@X.IO")
      [] v = Null -> Null

clean_text_column(df, column) ==
    IF ~column_found(df, column) THEN [raised |-> FALSE, df |-> df]
    ELSE convert_column(df, column, [v \in CleanCells |-> text_cleaned(v)])

\* the values of a column, in row order, and those that are not null
column_cells(df, column) == [i \in DOMAIN df.rows |-> df.rows[i][column]]

non_null(df, column) ==
    LET kept == SelectSeq(column_cells(df, column), notna)
    IN  [i \in DOMAIN kept |-> kept[i].n]

\* df[column].dtype: a column read from a CSV file is numeric (int64 or
\* float64) when it has rows and no cell of it is text
numeric_dtype(df, column) ==
    /\ df.rows # << >>
    /\ \A i \in DOMAIN df.rows : df.rows[i][column].k \in {"num", "null"}

\* np.abs((df[column] - mean) / std) > 3 with the sample standard deviation
\* (ddof = 1) over the values that are not null, as the positions selected.
\* With n values of sum S and sum of squares Q, |x - S/n| / std > 3 is
\* (n*x - S)^2 * (n - 1) > 9 * n * (n*Q - S^2); for a null cell, a single
\* value or equal values the quotient is NaN and the comparison is False.
outlier_mask(df, column) ==
    LET values == non_null(df, column)
        n == Len(values)
        S == SumSeq(values)
        Q == SumSeq([i \in DOMAIN values |-> values[i] * values[i]])
    IN  { i \in DOMAIN df.rows :
            /\ notna(df.rows[i][column])
            /\ LET x == df.rows[i][column].n
               IN  (n * x - S) * (n * x - S) * (n - 1) > 9 * n * (n * Q - S * S) }

\* df.loc[outlier_mask, column] = np.nan
null_outliers(df, column) ==
    SetColumn(df, column,
              [i \in DOMAIN df.rows |->
                 IF i \in outlier_mask(df, column) THEN Null
                 ELSE df.rows[i][column]])

\* an object column: currency signs and every character but digits, dot and
\* minus are removed and pd.to_numeric coerces what is left ('' or '.') to
\* NaN; then, the column being numeric, the values further than three
\* standard deviations from the mean are nulled
clean_numeric_column(df, column) ==
    IF ~column_found(df, column) THEN [raised |-> FALSE, df |-> df]
    ELSE IF column \notin Range(df.columns) THEN [raised |-> TRUE, df |-> df]
    ELSE IF numeric_dtype(df, column)
         THEN [raised |-> FALSE, df |-> null_outliers(df, column)]
         ELSE LET numbers == convert_column(df, column, [v \in CleanCells |-> Null])
              IN  IF numbers.raised \/ ~numeric_dtype(numbers.df, column)
                  THEN numbers
                  ELSE [raised |-> FALSE, df |-> null_outliers(numbers.df, column)]

\* pd.to_datetime(errors='coerce') of each listed column that is in the
\* table; none of the strings is a date
RECURSIVE standardize_dates(_, _)
standardize_dates(df, date_columns) ==
    IF date_columns = << >> THEN [raised |-> FALSE, df |-> df]
    ELSE LET column == Head(date_columns)
             first == IF column_found(df, column)
                      THEN convert_column(df, column, [v \in CleanCells |-> Null])
                      ELSE [raised |-> FALSE, df |-> df]
         IN  IF first.raised THEN first
             ELSE standardize_dates(first.df, Tail(date_columns))

\* astype(str).str.title(), then 'Other' for what is not a valid category
categorical_cleaned(v, valid_categories) ==
    LET titled == CASE v = Str(" ana  paz ") -> " Ana  Paz "
                    [] v = Str("ana paz") -> "Ana Paz"
                    [] v = Str("ANA@X.IO ") -> "Ana@X.Io "
                    [] v = Null -> "Nan"
        valid_categories_title ==
            {CASE c = "ana paz" -> "Ana Paz" [] OTHER -> c : c \in valid_categories}
    IN  IF valid_categories # {} /\ titled \notin valid_categories_title
        THEN Str("Other") ELSE Str(titled)

clean_categorical_column(df, column, valid_categories) ==
    IF ~column_found(df, column) THEN [raised |-> FALSE, df |-> df]
    ELSE convert_column(df, column,
                        [v \in CleanCells |-> categorical_cleaned(v, valid_categories)])

\* astype(str).str.lower().str.strip(), then NaN for what does not match
\* the e-mail pattern
email_cleaned(v) == IF v = Str("ANA@X.IO ") THEN Str("ana@x.io") ELSE Null

clean_email_column(df, column) ==
    IF ~column_found(df, column) THEN [raised |-> FALSE, df |-> df]
    ELSE convert_column(df, column, [v \in CleanCells |-> email_cleaned(v)])

(***************************************************************************)
(* limpieza.py, clean_dataframe on a table with a numeric column.          *)
(***************************************************************************)
\* df.drop_duplicates(): the first of the rows that are equal is kept
remove_duplicates(df) ==
    LET kept == { i \in DOMAIN df.rows :
                    \A j \in 1..(i - 1) : df.rows[j] # df.rows[i] }
        position(k) == CHOOSE i \in kept : Cardinality({ j \in kept : j <= i }) = k
    IN  DataFrame(df.columns, [k \in 1..Cardinality(kept) |-> df.rows[position(k)]])

\* df.dropna(subset=[column])
dropna(df, column) ==
    DataFrame(df.columns, SelectSeq(df.rows, LAMBDA row : notna(row[column])))

\* the k-th smallest of the values of a sequence
KthSmallest(values, k) ==
    CHOOSE x \in Range(values) :
        /\ Cardinality({ i \in DOMAIN values : values[i] < x }) < k
        /\ Cardinality({ i \in DOMAIN values : values[i] <= x }) >= k

\* df[column].mean() and df[column].median(): NaN for a column without
\* values.  The quotients are exact on the tables of the model.
column_mean(df, column) ==
    LET values == non_null(df, column)
    IN  IF values = << >> THEN Null ELSE Num(SumSeq(values) \div Len(values))

column_median(df, column) ==
    LET values == non_null(df, column)
        n == Len(values)
    IN  IF n = 0 THEN Null
        ELSE IF n % 2 = 1 THEN Num(KthSmallest(values, (n + 1) \div 2))
        ELSE Num((KthSmallest(values, n \div 2)
                   + KthSmallest(values, n \div 2 + 1)) \div 2)

\* df[column].fillna(value, inplace=True).  df[column] is a Series of its
\* own: the fill reaches the table when the Series shares the table's data
\* (in_place), and is lost when the library hands out a copy (copy on
\* write).  Filling with NaN changes nothing.
fillna(df, column, value, in_place) ==
    IF ~in_place THEN df
    ELSE SetColumn(df, column,
                   [i \in DOMAIN df.rows |->
                      IF notna(df.rows[i][column]) THEN df.rows[i][column]
                      ELSE value])

\* one pass of the loop of handle_missing_values over a column
handle_missing_column(df, column, col_strategy, in_place) ==
    CASE col_strategy = "drop" -> dropna(df, column)
      [] col_strategy = "mean" /\ numeric_dtype(df, column) ->
            fillna(df, column, column_mean(df, column), in_place)
      [] col_strategy = "median" /\ numeric_dtype(df, column) ->
            fillna(df, column, column_median(df, column), in_place)
      [] col_strategy = "zero" /\ numeric_dtype(df, column) ->
            fillna(df, column, Num(0), in_place)
      [] OTHER -> df

\* strategy.get(column, 'default') for the columns of the table in order
RECURSIVE handle_missing_from(_, _, _, _)
handle_missing_from(df, k, strategy, in_place) ==
    IF k > Len(df.columns) THEN df
    ELSE LET column == df.columns[k]
             col_strategy == IF column \in DOMAIN strategy THEN strategy[column]
                             ELSE "default"
         IN  handle_missing_from(
                 handle_missing_column(df, column, col_strategy, in_place),
                 k + 1, strategy, in_place)

handle_missing_values(df, strategy, in_place) ==
    handle_missing_from(df, 1, strategy, in_place)

\* for col in numeric_columns: df = self.clean_numeric_column(df, col), with
\* the outliers the calls log
RECURSIVE clean_numeric_columns(_, _)
clean_numeric_columns(df, numeric_columns) ==
    IF numeric_columns = << >> THEN [raised |-> FALSE, df |-> df, outliers |-> 0]
    ELSE LET column == Head(numeric_columns)
             found == IF column_found(df, column) /\ numeric_dtype(df, column)
                      THEN Cardinality(outlier_mask(df, column)) ELSE 0
             first == clean_numeric_column(df, column)
             rest == clean_numeric_columns(first.df, Tail(numeric_columns))
         IN  IF first.raised THEN [raised |-> TRUE, df |-> first.df, outliers |-> found]
             ELSE [raised |-> rest.raised, df |-> rest.df,
                   outliers |-> found + rest.outliers]

\* The mutant cleans the numeric columns before it handles the missing
\* values.
clean_dataframe_fill_last(df, config, in_place) ==
    LET unique == remove_duplicates(df)
        numeric == clean_numeric_columns(unique, config.numeric_columns)
    IN  [raised |-> numeric.raised,
         df |-> handle_missing_values(numeric.df, config.missing_strategy, in_place),
         outliers |-> numeric.outliers]

\* remove_duplicates, handle_missing_values, then the numeric columns; the
\* configurations of the model list no text, date, categorical or e-mail
\* column
clean_dataframe(df, config, in_place) ==
    LET unique == remove_duplicates(df)
        filled == handle_missing_values(unique, config.missing_strategy, in_place)
    IN  clean_numeric_columns(filled, config.numeric_columns)

\* A table of profiles: distinct identifiers, an age column with `low`
\* values of 120, `high` values of 252 and `nulls` empty cells in the order
\* given, and `dup` repetitions of the last row.
NumericRows(low, high, nulls, high_first) ==
    LET n == low + high + nulls
        edad(i) == IF high_first
                   THEN (IF i <= high THEN Num(252)
                         ELSE IF i <= high + low THEN Num(120) ELSE Null)
                   ELSE (IF i <= low THEN Num(120)
                         ELSE IF i <= low + high THEN Num(252) ELSE Null)
    IN  [i \in 1..n |-> [c \in {"id_persona", "edad"} |->
                            IF c = "edad" THEN edad(i) ELSE Num(i)]]

NumericTables ==
    { DataFrame(<< "id_persona", "edad" >>,
                LET rows == NumericRows(low, high, nulls, high_first)
                IN  IF dup = 1 /\ rows # << >> THEN Append(rows, rows[Len(rows)])
                    ELSE rows) :
        low \in (MaxNumericRows - 3)..(MaxNumericRows - 1), high \in 0..1,
        nulls \in 0..1, dup \in 0..1, high_first \in BOOLEAN }

\* the configurations clean_dataframe is called with: the age column as
\* the numeric column, or none, and a strategy for it, or none
CleaningConfigs ==
    { [numeric_columns |-> numeric_columns, missing_strategy |-> missing_strategy] :
        numeric_columns \in { << >>, << "edad" >> },
        missing_strategy \in
            { [c \in {} |-> "default"] } \cup
            { [c \in {"edad"} |-> s] : s \in {"drop", "mean", "median", "zero"} } }

NoCleaningConfig == [numeric_columns |-> << >>, missing_strategy |-> << >>]

UsesMean(config) ==
    /\ "edad" \in DOMAIN config.missing_strategy
    /\ config.missing_strategy["edad"] = "mean"

\* the mean of the age column after remove_duplicates is a whole number
ExactMean(df) ==
    LET values == non_null(remove_duplicates(df), "edad")
    IN  values = << >> \/ SumSeq(values) % Len(values) = 0

\* the column names an operation is called with; no table has 'salario'
CleanColumnNames == {"cargo", "correo", "salario"}

CleanHeaders == { << >>, << "cargo" >>, << "cargo", "correo" >> }

CleanTables ==
    UNION { { DataFrame(h, rows) : rows \in [1..n -> [Range(h) -> CleanCells]] } :
            h \in CleanHeaders, n \in 0..MaxCleanRows }

InitCleaner ==
    /\ clean_input \in CleanTables
    /\ clean_df = clean_input
    /\ clean_call = [op |-> "none", columns |-> << >>]
    /\ clean_pc = "call"
    /\ cleaning_config = NoCleaningConfig
    /\ outlier_count = 0

\* clean_dataframe is about to be called on a table with a numeric column
InitCleanDataframe ==
    /\ clean_input \in NumericTables
    /\ clean_df = clean_input
    /\ clean_call = [op |-> "none", columns |-> << >>]
    /\ clean_pc = "clean"
    /\ cleaning_config = NoCleaningConfig
    /\ outlier_count = 0

\* the end of a call: the table it returned, or the exception
Called(op, columns, r) ==
    /\ clean_call' = [op |-> op, columns |-> columns]
    /\ clean_df' = r.df
    /\ clean_pc' = IF r.raised THEN "raised" ELSE "returned"
    /\ UNCHANGED <<clean_input, cleaning_config, outlier_count>>
    /\ UNCHANGED <<whVars, miVars, valVars, runVars, txVars>>

\* cleaner.clean_dataframe(df, cleaning_config)
CleanDataframe ==
    /\ clean_pc = "clean"
    /\ \E config \in CleaningConfigs, in_place \in BOOLEAN :
          /\ UsesMean(config) => ExactMean(clean_df)
          /\ LET r == clean_dataframe(clean_df, config, in_place)
             IN  /\ clean_call' = [op |-> "clean_dataframe",
                                   columns |-> config.numeric_columns]
                 /\ cleaning_config' = config
                 /\ clean_df' = r.df
                 /\ outlier_count' = r.outliers
                 /\ clean_pc' = IF r.raised THEN "raised" ELSE "returned"
          /\ UNCHANGED clean_input
    /\ UNCHANGED <<whVars, miVars, valVars, runVars, txVars>>

CleanTextColumn ==
    /\ clean_pc = "call"
    /\ \E column \in CleanColumnNames :
          Called("clean_text_column", << column >>, clean_text_column(clean_df, column))

CleanNumericColumn ==
    /\ clean_pc = "call"
    /\ \E column \in CleanColumnNames :
          Called("clean_numeric_column", << column >>,
                 clean_numeric_column(clean_df, column))

StandardizeDates ==
    /\ clean_pc = "call"
    /\ \E c1 \in CleanColumnNames, c2 \in CleanColumnNames :
          LET date_columns == IF c1 = c2 THEN << c1 >> ELSE << c1, c2 >>
          IN  Called("standardize_dates", date_columns,
                     standardize_dates(clean_df, date_columns))

CleanCategoricalColumn ==
    /\ clean_pc = "call"
    /\ \E column \in CleanColumnNames, valid_categories \in {{}, {"ana paz"}} :
          Called("clean_categorical_column", << column >>,
                 clean_categorical_column(clean_df, column, valid_categories))

CleanEmailColumn ==
    /\ clean_pc = "call"
    /\ \E column \in CleanColumnNames :
          Called("clean_email_column", << column >>, clean_email_column(clean_df, column))

IdleCleaner ==
    /\ clean_input = NoTable
    /\ clean_df = NoTable
    /\ clean_call = [op |-> "none", columns |-> << >>]
    /\ clean_pc = "idle"
    /\ cleaning_config = NoCleaningConfig
    /\ outlier_count = 0

(***************************************************************************)
(* transformacion.py, create_features_from_text, called for each column of *)
(* text_features by transform_dataframe.                                   *)
(***************************************************************************)
tech_keywords ==
    << "python", "java", "javascript", "sql", "machine learning", "ai",
       "data science" >>

\* f'has_{keyword.replace(" ", "_")}'
FlagColumn(keyword) ==
    CASE keyword = "machine learning" -> "has_machine_learning"
      [] keyword = "data science" -> "has_data_science"
      [] OTHER -> "has_" \o keyword

\* the cells of the text columns of the model
TextCells == {Str("Python Developer"), Str("Java SQL"), Null}

\* astype(str).str.len(): the number of characters, 3 for the 'nan' of an
\* empty cell
str_len(v) ==
    CASE v = Str("Python Developer") -> 16
      [] v = Str("Java SQL") -> 8
      [] v = Null -> 3

\* astype(str).str.split().str.len(): the number of words
word_count(v) ==
    CASE v = Str("Python Developer") -> 2
      [] v = Str("Java SQL") -> 2
      [] v = Null -> 1

\* astype(str).str.lower().str.contains(keyword, na=False)
str_contains(v, keyword) ==
    \/ v = Str("Python Developer") /\ keyword = "python"
    \/ v = Str("Java SQL") /\ keyword \in {"java", "sql"}

\* the loop over tech_keywords, from the k-th keyword on: df[f'has_...'] =
\* <whether the text of text_column contains the keyword>
RECURSIVE keyword_flags(_, _, _, _)
keyword_flags(df, text_column, flag_column, k) ==
    IF k > Len(tech_keywords) THEN df
    ELSE keyword_flags(
             SetColumn(df, flag_column[k],
                       [i \in DOMAIN df.rows |->
                          Bool(str_contains(df.rows[i][text_column], tech_keywords[k]))]),
             text_column, flag_column, k + 1)

\* the names of the flag columns of a call: the same for every text column
flag_columns(text_column) ==
    [k \in DOMAIN tech_keywords |-> FlagColumn(tech_keywords[k])]

create_features_from_text(df, text_column) ==
    IF text_column \notin Range(df.columns) THEN df
    ELSE LET d1 == SetColumn(df, text_column \o "_length",
                             [i \in DOMAIN df.rows |->
                                Num(str_len(df.rows[i][text_column]))])
             d2 == SetColumn(d1, text_column \o "_word_count",
                             [i \in DOMAIN df.rows |->
                                Num(word_count(df.rows[i][text_column]))])
         IN  keyword_flags(d2, text_column, flag_columns(text_column), 1)

\* the text columns of the tables, and the names the loop is run with; no
\* table has 'resumen'
TextHeaders == << "cargo", "area" >>
TextColumnNames == {"cargo", "area", "resumen"}

TextTables ==
    UNION { { DataFrame(TextHeaders, rows) :
                rows \in [1..n -> [Range(TextHeaders) -> TextCells]] } :
            n \in 0..MaxCleanRows }

InitText ==
    /\ text_df \in TextTables
    /\ text_before = text_df
    /\ text_calls = << >>
    /\ text_pc = "loop"

\* for col in text_columns: df = self.create_features_from_text(df, col)
CreateFeaturesFromText ==
    /\ text_pc = "loop"
    /\ Len(text_calls) < MaxTextCalls
    /\ \E text_column \in TextColumnNames \ Range(text_calls) :
          /\ text_before' = text_df
          /\ text_df' = create_features_from_text(text_df, text_column)
          /\ text_calls' = Append(text_calls, text_column)
    /\ UNCHANGED text_pc
    /\ UNCHANGED <<whVars, miVars, valVars, runVars, clVars>>

\* the loop ends and transform_dataframe returns the table
ReturnTransformed ==
    /\ text_pc = "loop"
    /\ text_pc' = "returned"
    /\ UNCHANGED <<text_df, text_before, text_calls>>
    /\ UNCHANGED <<whVars, miVars, valVars, runVars, clVars>>

IdleText ==
    /\ text_df = NoTable
    /\ text_before = NoTable
    /\ text_calls = << >>
    /\ text_pc = "idle"

(***************************************************************************)
(* The specifications: the warehouse steps of main_simple, the data-mining *)
(* orchestrator on a table, the validation step with the metrics, the      *)
(* stages of main_simple, and a call of the Cleaner.                       *)
(***************************************************************************)
Init == InitWarehouse /\ IdleMining /\ IdleValidation /\ IdleRun /\ IdleCleaner
    /\ IdleText

Next ==
    \/ Paso4CreateTechWarehouse
    \/ Paso6AddSource
    \/ Paso7CreateTechWarehouse
    \/ Paso8ExportForPowerBI
    \/ Tick

Spec == Init /\ [][Next]_vars

NextMining ==
    \/ AnalyzeAssociations
    \/ AnalyzeClustering
    \/ AnalyzeRegression
    \/ AnalyzeClassification
    \/ Summarize

StartMining == IdleWarehouse /\ InitMining /\ IdleValidation /\ IdleRun /\ IdleCleaner
    /\ IdleText

SpecMining == StartMining /\ [][NextMining]_vars

NextValidation ==
    \/ ValidateSource
    \/ WriteMetrics
    \/ CallValidateDataframe

StartValidation ==
    IdleWarehouse /\ IdleMining /\ InitValidation /\ IdleRun /\ IdleCleaner
    /\ IdleText

SpecValidation == StartValidation /\ [][NextValidation]_vars

NextRun ==
    \/ RunStage
    \/ ReturnTrue
    \/ ReturnFalse

StartRun == IdleWarehouse /\ IdleMining /\ IdleValidation /\ InitRun /\ IdleCleaner
    /\ IdleText

SpecRun == StartRun /\ [][NextRun]_vars

NextCleaner ==
    \/ CleanTextColumn
    \/ CleanNumericColumn
    \/ StandardizeDates
    \/ CleanCategoricalColumn
    \/ CleanEmailColumn

StartCleaner == IdleWarehouse /\ IdleMining /\ IdleValidation /\ IdleRun /\ InitCleaner
    /\ IdleText

SpecCleaner == StartCleaner /\ [][NextCleaner]_vars

NextCleanDataframe == CleanDataframe

StartCleanDataframe ==
    IdleWarehouse /\ IdleMining /\ IdleValidation /\ IdleRun /\ InitCleanDataframe
    /\ IdleText

SpecCleanDataframe == StartCleanDataframe /\ [][NextCleanDataframe]_vars

NextText ==
    \/ CreateFeaturesFromText
    \/ ReturnTransformed

StartText ==
    IdleWarehouse /\ IdleMining /\ IdleValidation /\ IdleRun /\ IdleCleaner
    /\ InitText

SpecText == StartText /\ [][NextText]_vars

(***************************************************************************)
(* Properties of the warehouse build (specification Spec).                 *)
(***************************************************************************)
Built == pc \in {"paso6", "paso7", "done"}

InputRows == Len(jobs_df.rows) + Len(investment_df.rows) + Len(profiles_df.rows)

\* C1: the unified table create_tech_warehouse returns holds exactly as many
\* records as the jobs, investment and profiles tables have rows together;
\* no record is dropped and none is duplicated.
C1_UnifiedCount ==
    /\ Built => Len(warehouse_temp_df.rows) = InputRows
    /\ pc = "done" => Len(warehouse_df.rows) = InputRows

C1_Witness ==
    /\ pc = "done"
    /\ Len(investment_df.rows) >= 1
    /\ Len(warehouse_df.rows) = MaxRows

SourceLabels == {"empleos_tech", "inversiones_tech", "perfiles_habilidades"}

LabelCount(df, label) ==
    Cardinality({i \in DOMAIN df.rows : df.rows[i]["fuente_datos"] = Str(label)})

SourcePartition(df) ==
    /\ \A i \in DOMAIN df.rows :
          df.rows[i]["fuente_datos"] \in {Str(label) : label \in SourceLabels}
    /\ LabelCount(df, "empleos_tech") = Len(jobs_df.rows)
    /\ LabelCount(df, "inversiones_tech") = Len(investment_df.rows)
    /\ LabelCount(df, "perfiles_habilidades") = Len(profiles_df.rows)

\* C2: every record of the unified table carries one of the three labels
\* 'empleos_tech', 'inversiones_tech', 'perfiles_habilidades' in
\* fuente_datos, and the number of records under each label is the row count
\* of the corresponding input table.
C2_SourcePartition ==
    /\ Built => SourcePartition(warehouse_temp_df)
    /\ pc = "done" => SourcePartition(warehouse_df)

C2_Witness ==
    /\ pc = "done"
    /\ {warehouse_df.rows[i]["fuente_datos"] : i \in DOMAIN warehouse_df.rows}
         = {Str(label) : label \in SourceLabels}

\* the bucket of a salary by the amounts 50K, 75K, 100K and 150K
SalaryBucket(amount) ==
    IF amount <= 50000 THEN "<50K"
    ELSE IF amount <= 75000 THEN "50K-75K"
    ELSE IF amount <= 100000 THEN "75K-100K"
    ELSE IF amount <= 150000 THEN "100K-150K"
    ELSE "150K+"

\* C3: rango_salario is the bucket of salario_usd by the amounts 50K, 75K,
\* 100K and 150K (120000 falls in '100K-150K'), and a record without salary
\* is bucketed as '<50K' while its tiene_salario flag is false.
C3_SalaryBuckets ==
    Built =>
        \A i \in DOMAIN warehouse_temp_df.rows :
            LET row == warehouse_temp_df.rows[i]
            IN  IF notna(row["salario_usd"])
                THEN /\ row["rango_salario"] = Str(SalaryBucket(row["salario_usd"].n))
                     /\ row["tiene_salario"] = Bool(TRUE)
                ELSE /\ row["rango_salario"] = Str("<50K")
                     /\ row["tiene_salario"] = Bool(FALSE)

\* the columns that record the time of the build
time_columns == {"fecha_procesamiento", "mes_procesamiento", "ano_procesamiento"}

StripTime(df) ==
    [columns |-> SelectSeq(df.columns, LAMBDA c : c \notin time_columns),
     rows |-> [i \in DOMAIN df.rows |->
                  [c \in (DOMAIN df.rows[i]) \ time_columns |-> df.rows[i][c]]]]

\* C10: two runs of create_tech_warehouse on the same input tables give the
\* same unified table (same records, same order, same columns) but for
\* fecha_procesamiento, mes_procesamiento and ano_procesamiento: the table of
\* PASO 7 equals the table of PASO 4, and the table of any other run on the
\* tables of PASO 7 at any time.
C10_Deterministic ==
    pc = "done" =>
        /\ StripTime(warehouse_temp_df) = StripTime(warehouse_df)
        /\ \A now \in 0..MaxClock :
              \A t \in Readings(now) :
                 StripTime(create_tech_warehouse(jobs_df, investment_df,
                                                 profiles_df, t).df)
                   = StripTime(warehouse_df)

C10_Witness ==
    /\ pc = "done"
    /\ \E i \in DOMAIN warehouse_df.rows :
          /\ warehouse_df.rows[i]["fuente_datos"] = Str("empleos_tech")
          /\ warehouse_df.rows[i]["fecha_procesamiento"]
               # warehouse_temp_df.rows[i]["fecha_procesamiento"]

(***************************************************************************)
(* Properties of the data-mining orchestrator (specification SpecMining).  *)
(***************************************************************************)
analysis_order == << "asociaciones", "clustering", "regresion", "clasificacion" >>

\* the number of analyses that have run when the orchestrator is at a stage
AnalysesBefore(stage) ==
    CASE stage = "asociaciones" -> 0
      [] stage = "clustering" -> 1
      [] stage = "regresion" -> 2
      [] stage = "clasificacion" -> 3
      [] OTHER -> 4

\* C4: perform_data_mining_analysis runs the four analyses in the order
\* associations, clustering, regression, classification; an error inside an
\* analysis is recorded in the entry of that analysis and the later analyses
\* still run, so no exception leaves the orchestrator and the report it
\* returns has exactly four entries, in that order.
C4_FourAnalyses ==
    /\ mining_pc # "raised"
    /\ mining_pc # "idle" =>
          /\ Len(analisis_realizados) = AnalysesBefore(mining_pc)
          /\ \A i \in DOMAIN analisis_realizados :
                analisis_realizados[i].nombre = analysis_order[i]
    /\ mining_pc = "returned" => resumen_ejecucion.total_analisis = 4

C4_Witness ==
    /\ mining_pc = "returned"
    /\ analisis_realizados[1].error = "Error en análisis"
    /\ analisis_realizados[2].error = ""
    /\ analisis_realizados[4].error = ""

\* the entry of an analysis in the report
HasEntry(nombre) ==
    \E i \in DOMAIN analisis_realizados : analisis_realizados[i].nombre = nombre

Entry(nombre) ==
    analisis_realizados[CHOOSE i \in DOMAIN analisis_realizados :
                            analisis_realizados[i].nombre = nombre]

Copies(row) == CopiesIn(row, mining_df)

\* the records of the profiles source in the table
ProfileRecords == Copies(ProfileRow)

ClusteringDecision ==
    /\ Entry("clustering").error = "Datos insuficientes para clustering"
         <=> ProfileRecords < 50
    /\ ProfileRecords >= 50 => "clustering" \in library_fits

\* C5 as stated: analyze_clustering reports insufficient data if and only if
\* the table has fewer than 50 records of the profiles source, and with 50 or
\* more it attempts the clustering.
C5_AsStated == HasEntry("clustering") => ClusteringDecision

\* C5: when the mining libraries were imported, analyze_clustering reports
\* insufficient data if and only if the table has fewer than 50 records of
\* the profiles source, and with 50 or more it attempts the clustering.
C5_ClusteringThreshold ==
    (SKLEARN_AVAILABLE /\ HasEntry("clustering")) => ClusteringDecision

C5_Witness ==
    /\ SKLEARN_AVAILABLE
    /\ HasEntry("clustering")
    /\ ProfileRecords = 50
    /\ "clustering" \in library_fits
    /\ Entry("clustering").error = ""

\* the records with both a primary technology and a framework, and the
\* non-empty transactions built from them
TechRecords == Copies(ProfileRow) + Copies(JobHighRow) + Copies(JobLowRow)
TechTransactions == Copies(ProfileRow) + Copies(JobHighRow)

AssociationsDecision ==
    (TechRecords < 10 \/ TechTransactions < 10) =>
        Entry("asociaciones").error \in
            {"Datos insuficientes para análisis de asociaciones",
             "Transacciones insuficientes"}

\* C6 as stated: analyze_associations reports insufficient data when fewer
\* than 10 records have both a primary technology and a framework, or when
\* fewer than 10 non-empty transactions can be built from them.
C6_AsStated == HasEntry("asociaciones") => AssociationsDecision

\* C6: when the mining libraries were imported, analyze_associations reports
\* insufficient data when fewer than 10 records have both a primary
\* technology and a framework, or when fewer than 10 non-empty transactions
\* can be built from them.
C6_AssociationsThreshold ==
    (SKLEARN_AVAILABLE /\ HasEntry("asociaciones")) => AssociationsDecision

C6_Witness ==
    /\ SKLEARN_AVAILABLE
    /\ HasEntry("asociaciones")
    /\ TechRecords >= 10
    /\ TechTransactions = 9
    /\ Entry("asociaciones").error = "Transacciones insuficientes"

(***************************************************************************)
(* Properties of the validation step (specification SpecValidation).       *)
(* Scores are in hundredths of a per cent.                                 *)
(***************************************************************************)
Written == val_pc = "written"

\* the completeness scores of the validated sources and their sum
SourceScores ==
    [i \in DOMAIN source_reports |-> source_reports[i].completeness_score]

ScoreSum == SumSeq(SourceScores)

Abs(x) == IF x < 0 THEN -x ELSE x

\* C7 as stated: the data-quality score written to the metrics is the
\* arithmetic mean of the completeness scores of the validated sources
\* (100 and 80 give 90.0) and lies between 0 and 100.
C7_AsStated ==
    Written =>
        /\ etl_metrics.puntuacion_calidad_datos * Len(source_reports) = ScoreSum
        /\ etl_metrics.puntuacion_calidad_datos \in 0..10000

\* C7: the data-quality score written to the metrics is the arithmetic mean
\* of the completeness scores of the validated sources rounded to two
\* decimals, that is, no hundredth is nearer to the mean (100 and 80 give
\* 90.0), and it lies between 0 and 100.
C7_QualityScore ==
    Written =>
        /\ Len(source_reports) = Len(Sources(entry))
        /\ 2 * Abs(etl_metrics.puntuacion_calidad_datos * Len(source_reports)
                   - ScoreSum) <= Len(source_reports)
        /\ SourceScores = << 10000, 8000 >> =>
              etl_metrics.puntuacion_calidad_datos = 9000
        /\ etl_metrics.puntuacion_calidad_datos \in 0..10000

C7_Witness ==
    /\ Written
    /\ entry = "main_simple"
    /\ ScoreSum % 3 = 2
    /\ etl_metrics.puntuacion_calidad_datos * 3 = ScoreSum + 1

Validated == validation_results # NoReport

AbsentColumns(completeness) ==
    {c \in DOMAIN completeness.column_completeness :
        "status" \in DOMAIN completeness.column_completeness[c]}

\* C8: validate_completeness ends with the status 'failed' whenever a
\* required column is absent from the table, whatever the order of the list
\* of required columns, and it records the completeness 0 for each absent
\* column.
C8_AbsentColumnFails ==
    Validated =>
        LET completeness == validation_results.completeness_validation
        IN  /\ AbsentColumns(completeness) # {} => completeness.status = "failed"
            /\ \A c \in AbsentColumns(completeness) :
                  completeness.column_completeness[c].completeness_percentage = 0

\* the tags of all the checks of a report
CheckTags(report) ==
    (IF "schema_validation" \in DOMAIN report
     THEN {report.schema_validation.status} ELSE {})
    \cup Range(report.quality_validation.quality_checks)
    \cup (IF "business_rules_validation" \in DOMAIN report
          THEN {report.business_rules_validation.status}
               \cup Range(report.business_rules_validation.rule_results)
          ELSE {})
    \cup {report.completeness_validation.status}

\* C9: overall_status is 'failed' whenever a check of the report (schema,
\* the data-quality checks such as the minimum-records check, business
\* rules, completeness) is tagged 'failed', otherwise 'warning' whenever a
\* check is tagged 'warning', otherwise 'passed'; it is always one of the
\* three.
C9_OverallStatus ==
    Validated =>
        /\ validation_results.overall_status \in {"passed", "warning", "failed"}
        /\ validation_results.overall_status =
              IF "failed" \in CheckTags(validation_results) THEN "failed"
              ELSE IF "warning" \in CheckTags(validation_results) THEN "warning"
              ELSE "passed"

(***************************************************************************)
(* Further properties of the warehouse build (specification Spec).         *)
(***************************************************************************)
\* the record at position k of df is the one derived from row k of the
\* input table: it has the label of the source and the identifier of the row
DerivedFrom(df, k, input, n, label, id_column) ==
    /\ df.rows[k]["fuente_datos"] = Str(label)
    /\ df.rows[k]["id_registro"] = input.rows[n][id_column]

OrderedBySource(df) ==
    LET j == Len(jobs_df.rows)
        i == Len(investment_df.rows)
    IN  /\ \A n \in DOMAIN jobs_df.rows :
              DerivedFrom(df, n, jobs_df, n, "empleos_tech", "id_oferta")
        /\ \A n \in DOMAIN investment_df.rows :
              DerivedFrom(df, j + n, investment_df, n, "inversiones_tech", "id_programa")
        /\ \A n \in DOMAIN profiles_df.rows :
              DerivedFrom(df, j + i + n, profiles_df, n,
                          "perfiles_habilidades", "id_persona")

\* C11: in the consolidated table the records of the jobs table come first,
\* then those of the investment table, then those of the profiles table,
\* and within a source the records are in the order of the rows of the
\* input table.
C11_SourceOrder ==
    /\ Built => (Len(warehouse_temp_df.rows) = InputRows
                 /\ OrderedBySource(warehouse_temp_df))
    /\ pc = "done" => (Len(warehouse_df.rows) = InputRows
                       /\ OrderedBySource(warehouse_df))

C11_Witness ==
    /\ pc = "done"
    /\ Len(jobs_df.rows) = 2
    /\ jobs_df.rows[1]["id_oferta"] # jobs_df.rows[2]["id_oferta"]
    /\ Len(profiles_df.rows) = 1
    /\ warehouse_df.rows[3]["fuente_datos"] = Str("perfiles_habilidades")

\* the 22 fields of the unified schema, in their fixed order
UnifiedFields ==
    << "fuente_datos", "fecha_procesamiento", "id_registro",
       "empresa_organizacion", "cargo_area", "ciudad", "pais",
       "tecnologia_principal", "framework_herramienta", "nivel_experiencia",
       "salario_usd", "modalidad_tipo", "fecha_referencia", "anio_referencia",
       "edad", "anos_experiencia", "nivel_educativo", "certificaciones",
       "inversion_usd", "participantes", "duracion_meses",
       "satisfaccion_promedio" >>

\* the fields no column of the input tables of the model maps to
UnsuppliedFields ==
    {"cargo_area", "ciudad", "nivel_experiencia", "modalidad_tipo",
     "fecha_referencia", "anio_referencia", "nivel_educativo",
     "certificaciones", "duracion_meses", "satisfaccion_promedio"}

FixedSchema(df) ==
    /\ Len(df.columns) = 22
    /\ df.columns = UnifiedFields
    /\ \A i \in DOMAIN df.rows :
          /\ DOMAIN df.rows[i] = Range(UnifiedFields)
          /\ \A c \in UnsuppliedFields : df.rows[i][c] = Null

\* the table of as many rows whose only column is one no mapping reads
Unmapped(df) ==
    DataFrame(<< "observaciones" >>,
              [i \in DOMAIN df.rows |-> [c \in {"observaciones"} |-> Str("x")]])

\* C12: for any input tables, empty ones and ones without the mapped columns
\* included, create_unified_schema returns a table whose columns are exactly
\* the 22 fields of the fixed list in the fixed order, and a field that no
\* source row supplied is an all-null column.  The table is the one the
\* build obtains from the current input tables.
C12_FixedSchema ==
    /\ FixedSchema(create_unified_schema(jobs_df, investment_df, profiles_df,
                                         clock, clock, clock))
    /\ LET df == create_unified_schema(Unmapped(jobs_df), Unmapped(investment_df),
                                       Unmapped(profiles_df), clock, clock, clock)
       IN /\ FixedSchema(df)
          /\ Len(df.rows) = InputRows
          /\ \A i \in DOMAIN df.rows :
                \A c \in Range(UnifiedFields) \ {"fuente_datos", "fecha_procesamiento"} :
                   df.rows[i][c] = Null

\* the build was called on three empty tables: create_unified_schema
\* returned its table of no rows, and add_derived_metrics raised on it
C12_Witness ==
    /\ pc = "failed"
    /\ InputRows = 0
    /\ create_unified_schema(jobs_df, investment_df, profiles_df,
                             clock, clock, clock).rows = << >>

\* C13: the quality label written to the metrics is determined by the
\* data-quality score (the mean of the completeness scores, ScoreSum over
\* the number of sources) with strict thresholds: EXCELENTE iff score > 90,
\* BUENO iff 80 < score <= 90, REGULAR iff 70 < score <= 80, NECESITA_MEJORA
\* iff score <= 70; a score in 0..100 gets exactly one of the four labels.
C13_QualityLabel ==
    Written =>
        LET n == Len(source_reports)
            label == etl_metrics.estado_general
        IN  /\ ScoreSum \in 0..(10000 * n)
            /\ label \in {"EXCELENTE", "BUENO", "REGULAR", "NECESITA_MEJORA"}
            /\ label = "EXCELENTE" <=> ScoreSum > 9000 * n
            /\ label = "BUENO" <=> (8000 * n < ScoreSum /\ ScoreSum <= 9000 * n)
            /\ label = "REGULAR" <=> (7000 * n < ScoreSum /\ ScoreSum <= 8000 * n)
            /\ label = "NECESITA_MEJORA" <=> ScoreSum <= 7000 * n

\* a score of exactly 90 is labelled BUENO
C13_Witness ==
    /\ Written
    /\ ScoreSum = 9000 * Len(source_reports)
    /\ etl_metrics.puntuacion_calidad_datos = 9000
    /\ etl_metrics.estado_general = "BUENO"

\* the entries of the report that carry no error
EntriesWithoutError ==
    {nombre \in Range(analysis_order) : HasEntry(nombre) /\ Entry(nombre).error = ""}

\* the percentage string of k successes out of four
RateOfFour(k) ==
    CASE k = 0 -> "0.0%"
      [] k = 1 -> "25.0%"
      [] k = 2 -> "50.0%"
      [] k = 3 -> "75.0%"
      [] k = 4 -> "100.0%"

\* C14: in the mining report analisis_exitosos is the number of the four
\* analysis entries without an 'error' key (0 to 4), total_analisis is 4, and
\* tasa_exito is that number over 4 as a percentage with one decimal: one of
\* '0.0%', '25.0%', '50.0%', '75.0%', '100.0%'.
C14_SuccessRate ==
    mining_pc = "returned" =>
        /\ Len(analisis_realizados) = 4
        /\ resumen_ejecucion.analisis_exitosos = Cardinality(EntriesWithoutError)
        /\ resumen_ejecucion.analisis_exitosos \in 0..4
        /\ resumen_ejecucion.total_analisis = 4
        /\ resumen_ejecucion.tasa_exito = RateOfFour(Cardinality(EntriesWithoutError))

\* three of the four analyses succeeded and classification did not
C14_Witness ==
    /\ mining_pc = "returned"
    /\ Entry("clasificacion").error # ""
    /\ Cardinality(EntriesWithoutError) = 3
    /\ resumen_ejecucion.tasa_exito = "75.0%"

\* C15: export_for_powerbi is a pure consumer of the unified table: after
\* it returns, the table passed to it has the same columns, the same rows
\* and the same values as before the call.
C15_ExportPure ==
    [][(pc = "done" /\ pc' = "exported") => warehouse_df' = warehouse_df]_vars

\* C16: perform_data_mining_analysis leaves the unified table passed to it
\* unchanged (same columns, rows and values) whichever analyses succeed or
\* fail: no step of it changes the table, and the columns cluster and
\* alta_demanda are in no row of it.
C16_TableUnchanged ==
    [][/\ mining_df' = mining_df
       /\ \A r \in DOMAIN mining_df' :
             "cluster" \notin DOMAIN r /\ "alta_demanda" \notin DOMAIN r]_vars

\* clustering and classification both assigned their column and returned a
\* result
C16_Witness ==
    /\ mining_pc = "returned"
    /\ Entry("clustering").error = ""
    /\ Entry("clasificacion").error = ""
    /\ BagLen(profiles_data(mining_df)) >= min_profiles
    /\ BagLen(jobs_data(mining_df)) >= min_jobs

\* C17: a call of create_tech_warehouse that fails in any of its steps
\* (schema unification, derived metrics, persistence, summary generation) has
\* not written the warehouse file: the file is written only by calls that
\* return successfully.
C17_NoFileOnFailure ==
    [][(pc \in {"paso4", "paso7"} /\ pc' = "failed")
          => warehouse_file' = warehouse_file]_vars

(***************************************************************************)
(* Properties of main_simple as a whole (specification SpecRun).           *)
(***************************************************************************)
\* C18: in main_simple the stages run strictly in sequence (extract, clean,
\* transform, warehouse build, mining, validation, per-source save, warehouse
\* build, PowerBI export, metrics write), each completing before the next
\* starts; if a stage raises, no later stage runs, the metrics file is not
\* written and main_simple returns False without raising; it returns True
\* only after the metrics file has been written.
C18_Stages ==
    /\ Len(completed) <= Len(stage_order)
    /\ \A i \in DOMAIN completed : completed[i] = stage_order[i]
    /\ run_stage \in Range(stage_order) => Len(completed) = StageIndex(run_stage) - 1
    /\ \A name \in raising : Len(completed) < StageIndex(name)
    /\ raising # {} => ~metrics_file /\ result \in {"running", "False"}
    /\ run_stage = "except" =>
          /\ Len(completed) < Len(stage_order)
          /\ stage_order[Len(completed) + 1] \in raising
    /\ result = "False" => run_stage = "except"
    /\ result = "True" => metrics_file /\ completed = stage_order
    /\ metrics_file => completed = stage_order
    /\ result \in {"running", "True", "False"}

\* the PowerBI export raised after eight stages: main_simple returned False
\* and wrote no metrics
C18_Witness ==
    /\ result = "False"
    /\ "powerbi" \in raising
    /\ Len(completed) = 8
    /\ ~metrics_file

(***************************************************************************)
(* Properties of the Cleaner (specification SpecCleaner).                  *)
(***************************************************************************)
\* the columns a call named that are not in the table it was handed
AbsentNamed == Range(clean_call.columns) \ Range(clean_input.columns)

\* C19: a column operation of the Cleaner (clean_text_column,
\* clean_numeric_column, clean_categorical_column, clean_email_column, and
\* standardize_dates for each listed column) whose column is absent from the
\* table raises no error and returns the table with the same rows, columns
\* and values; standardize_dates leaves all but its listed present columns
\* as they were.
C19_AbsentColumn ==
    clean_pc \in {"returned", "raised"} =>
        /\ AbsentNamed # {} => clean_pc = "returned"
        /\ Range(clean_call.columns) \subseteq AbsentNamed => clean_df = clean_input
        /\ clean_df.columns = clean_input.columns
        /\ Len(clean_df.rows) = Len(clean_input.rows)
        /\ \A i \in DOMAIN clean_df.rows :
              \A c \in Range(clean_input.columns) \ Range(clean_call.columns) :
                 clean_df.rows[i][c] = clean_input.rows[i][c]

\* an operation was called with the absent column 'salario' on a table with
\* two rows of text
C19_Witness ==
    /\ clean_pc = "returned"
    /\ clean_call.op = "clean_numeric_column"
    /\ clean_call.columns = << "salario" >>
    /\ Len(clean_input.rows) = 2
    /\ clean_input.columns = << "cargo", "correo" >>
    /\ clean_df = clean_input

(***************************************************************************)
(* Accented headers (specification Spec): jobs_df, investment_df and       *)
(* profiles_df are the tables after normalize_column_names.                *)
(***************************************************************************)
\* the value of a normalized column of a row lands in a field of the record
\* at position k of the unified table
Carried(df, k, row, column, field) ==
    notna(Get(row, column)) => df.rows[k][field] = row[column]

\* C20: in main_simple, where normalize_column_names renames the raw headers
\* before consolidation, a non-null value of a raw column whose header has
\* accented letters (Inversión_USD, Años_Experiencia, ...) appears in the
\* corresponding unified field (inversion_usd, anos_experiencia, ...) of the
\* record derived from that row.
C20_AccentedHeaders ==
    Built =>
        LET j == Len(jobs_df.rows)
            i == Len(investment_df.rows)
        IN  /\ \A n \in DOMAIN investment_df.rows :
                  Carried(warehouse_temp_df, j + n, investment_df.rows[n],
                          NormalizeName("Inversión_USD"), "inversion_usd")
            /\ \A n \in DOMAIN profiles_df.rows :
                  Carried(warehouse_temp_df, j + i + n, profiles_df.rows[n],
                          NormalizeName("Años_Experiencia"), "anos_experiencia")

(***************************************************************************)
(* Properties of clean_dataframe (specification SpecCleanDataframe).       *)
(***************************************************************************)
Cleaned == clean_pc = "returned" /\ clean_call.op = "clean_dataframe"

NullCount(df, column) ==
    Cardinality({ i \in DOMAIN df.rows : ~notna(df.rows[i][column]) })

\* the age column is cleaned as a numeric column and has a strategy that
\* fills
FillConfigured ==
    /\ cleaning_config.numeric_columns = << "edad" >>
    /\ "edad" \in DOMAIN cleaning_config.missing_strategy
    /\ cleaning_config.missing_strategy["edad"] \in {"mean", "median", "zero"}

\* C21 as stated: when clean_dataframe has nulled an outlier of a column
\* configured with a mean, median or zero strategy, the strategy re-fills
\* it and the column has no null when clean_dataframe returns.
C21_AsStated ==
    (Cleaned /\ FillConfigured /\ outlier_count > 0)
        => NullCount(clean_df, "edad") = 0

\* C21, amended: the missing-value strategy has run before the numeric
\* outlier nulling, so every value the outlier policy nulls is still null
\* when clean_dataframe returns: the returned column holds at least as many
\* nulls as outliers were found, whatever its strategy.
C21_OutliersStayNull ==
    Cleaned => NullCount(clean_df, "edad") >= outlier_count

\* an outlier was nulled in a column with a filling strategy whose input
\* had an empty cell
C21_Witness ==
    /\ Cleaned
    /\ FillConfigured
    /\ outlier_count > 0
    /\ NullCount(clean_input, "edad") > 0
    /\ NullCount(clean_df, "edad") = outlier_count

(***************************************************************************)
(* Derived metrics (specification Spec).                                   *)
(***************************************************************************)
\* the group of a number of years of experience by the limits 2, 5 and 10
ExperienceGroup(y) ==
    IF y <= 2 THEN "Junior"
    ELSE IF y <= 5 THEN "Mid"
    ELSE IF y <= 10 THEN "Senior"
    ELSE "Expert"

\* C22: after add_derived_metrics every record whose anos_experiencia is a
\* value y >= 0 has nivel_experiencia_grupo 'Junior' if y <= 2, 'Mid' if
\* 2 < y <= 5, 'Senior' if 5 < y <= 10 and 'Expert' if y > 10; a record with
\* 0 years is 'Junior'.
C22_ExperienceGroups ==
    Built =>
        \A i \in DOMAIN warehouse_temp_df.rows :
            LET row == warehouse_temp_df.rows[i]
            IN  (notna(row["anos_experiencia"]) /\ row["anos_experiencia"].n >= 0)
                   => row["nivel_experiencia_grupo"]
                          = Str(ExperienceGroup(row["anos_experiencia"].n))

\* df is unified with the derived columns appended: the 22 base fields of
\* every record are those of unified, and the two flags tell which records
\* of unified have a salary and which have years of experience
DerivedOver(df, unified) ==
    /\ df.columns = unified.columns \o derived_columns
    /\ unified.columns = UnifiedFields
    /\ Len(df.rows) = Len(unified.rows)
    /\ \A i \in DOMAIN df.rows :
          /\ \A c \in Range(UnifiedFields) : df.rows[i][c] = unified.rows[i][c]
          /\ df.rows[i]["tiene_salario"] = Bool(notna(unified.rows[i]["salario_usd"]))
          /\ df.rows[i]["tiene_experiencia"]
                = Bool(notna(unified.rows[i]["anos_experiencia"]))

\* the reading of the clock the record at position k of df was stamped with
\* (any reading when df has no such record)
StampAt(df, k) ==
    IF k \in DOMAIN df.rows THEN df.rows[k]["fecha_procesamiento"].n ELSE clock

\* the unified table create_unified_schema makes of the current input tables
\* with the readings of the clock the records of df were stamped with
UnifiedFor(df) ==
    LET j == Len(jobs_df.rows)
        i == Len(investment_df.rows)
    IN  create_unified_schema(jobs_df, investment_df, profiles_df,
                              StampAt(df, 1), StampAt(df, j + 1), StampAt(df, j + i + 1))

\* C23: add_derived_metrics sets tiene_salario true exactly for the records
\* whose salario_usd is not null and tiene_experiencia true exactly for those
\* whose anos_experiencia is not null, and leaves the 22 base fields (the
\* nulls of salario_usd and anos_experiencia stay null) and the number of
\* records as create_unified_schema made them: the 0 used for bucketing is
\* not written back.
C23_FlagsAndFrame ==
    /\ pc = "paso6" => DerivedOver(warehouse_temp_df, UnifiedFor(warehouse_temp_df))
    /\ pc = "done" => DerivedOver(warehouse_df, UnifiedFor(warehouse_df))

\* a build of a table with a record without salary and one with a salary, a
\* record without years of experience and one with them
C23_Witness ==
    /\ pc = "paso6"
    /\ \E i, j \in DOMAIN warehouse_temp_df.rows :
          /\ warehouse_temp_df.rows[i]["salario_usd"] = Null
          /\ warehouse_temp_df.rows[i]["tiene_salario"] = Bool(FALSE)
          /\ warehouse_temp_df.rows[j]["salario_usd"] = Num(120000)
          /\ warehouse_temp_df.rows[j]["tiene_salario"] = Bool(TRUE)
    /\ \E i, j \in DOMAIN warehouse_temp_df.rows :
          /\ warehouse_temp_df.rows[i]["anos_experiencia"] = Null
          /\ warehouse_temp_df.rows[i]["tiene_experiencia"] = Bool(FALSE)
          /\ warehouse_temp_df.rows[j]["anos_experiencia"] = Num(11)
          /\ warehouse_temp_df.rows[j]["tiene_experiencia"] = Bool(TRUE)

(***************************************************************************)
(* Further properties of the analyses (specification SpecMining).          *)
(***************************************************************************)
\* the tagged items of a record: its technology and its framework, each when
\* present and not 'Unknown'
TaggedItems(row) ==
    { << "lang", v.s >> : v \in {row.tecnologia_principal} \ {Null, Str("Unknown")} }
    \cup { << "fw", v.s >> : v \in {row.framework_herramienta} \ {Null, Str("Unknown")} }

\* C24: each record contributes at most one association transaction, made
\* of 'lang_<technology>' and 'fw_<framework>' for each of its two values
\* that is present and not 'Unknown'; a record with exactly one such value
\* (the other null or 'Unknown') contributes a single-item transaction, and
\* a record with none contributes nothing.  The analysis reports as many
\* transactions as records have an item.
C24_Transactions ==
    (SKLEARN_AVAILABLE /\ HasEntry("asociaciones")) =>
        /\ \A r \in DOMAIN mining_df :
              IF TaggedItems(r) = {} THEN r \notin DOMAIN transactions(mining_df)
              ELSE /\ r \in DOMAIN transactions(mining_df)
                   /\ transactions(mining_df)[r] = mining_df[r]
                   /\ Transaction(r) = TaggedItems(r)
        /\ Entry("asociaciones").error = ""
              => Entry("asociaciones").metrics.total_transacciones
                    = BagLen(BagSelect(mining_df,
                                       {r \in DOMAIN mining_df : TaggedItems(r) # {}}))

\* C25: for n >= 50 profile records analyze_clustering uses
\* max(2, min(5, floor(n / 20))) clusters (50 gives 2, 60 gives 3, 100 or
\* more give 5): the number is in 2..5 and the report lists exactly that
\* many clusters, Cluster_1 .. Cluster_k.
C25_ClusterCount ==
    (HasEntry("clustering") /\ Entry("clustering").error = "") =>
        LET n == ProfileRecords
            k == Entry("clustering").metrics.num_clusters
        IN  /\ n >= 50
            /\ k = Max(2, Min(5, n \div 20))
            /\ k \in 2..5
            /\ n = 50 => k = 2
            /\ n = 59 => k = 2
            /\ n = 60 => k = 3
            /\ n = 99 => k = 4
            /\ n >= 100 => k = 5
            /\ Entry("clustering").metrics.clusters = 1..k

C25_Witness ==
    /\ HasEntry("clustering")
    /\ Entry("clustering").error = ""
    /\ ProfileRecords = 60
    /\ Entry("clustering").metrics.clusters = {1, 2, 3}

\* the records of the investment source with both the participants and the
\* amount
InvestmentRecords == Copies(InvestmentRow)

RegressionDecision ==
    /\ Entry("regresion").error \in {"Datos insuficientes para regresión",
                                      "Datos insuficientes para entrenamiento"}
         <=> InvestmentRecords < 20
    /\ InvestmentRecords >= 20 =>
          /\ "regresion" \in library_fits
          /\ Entry("regresion").error # "Datos insuficientes para entrenamiento"

\* C26 as stated: analyze_regression returns an insufficient-data result
\* exactly when fewer than 20 records are investment-sourced with both
\* participantes and inversion_usd non-null; with 20 or more it always goes
\* on to the train/test split, the check for fewer than 10 rows never firing.
C26_AsStated == HasEntry("regresion") => RegressionDecision

\* C26, amended: the same when the mining libraries were imported.
C26_RegressionThreshold ==
    (SKLEARN_AVAILABLE /\ HasEntry("regresion")) => RegressionDecision

\* twenty complete investment records and one without participants: the
\* models were fitted
C26_Witness ==
    /\ SKLEARN_AVAILABLE
    /\ HasEntry("regresion")
    /\ InvestmentRecords = 20
    /\ Copies(InvestmentOpenRow) = 1
    /\ Entry("regresion").error = ""

\* the label the claim gives a model whose R2 is r2 (units of 0.00001)
ClaimedPrecision(r2) ==
    IF r2 > 70000 THEN "Alta"
    ELSE IF 50000 < r2 /\ r2 <= 70000 THEN "Media"
    ELSE "Baja"

\* C27: in a successful regression report the label of each model is 'Alta'
\* iff its R2 > 0.7, 'Media' iff 0.5 < R2 <= 0.7 and 'Baja' otherwise, and
\* mejor_modelo is 'Random Forest' iff the R2 of the forest is strictly
\* greater than that of the linear model, 'Regresión Lineal' otherwise, ties
\* included.  The R2 values are those of the fitted models, which the
\* report shows rounded to four decimals.
C27_RegressionLabels ==
    (HasEntry("regresion") /\ Entry("regresion").error = "") =>
        LET report == Entry("regresion").metrics
            r2 == r2_values[1]
            r2_rf == r2_values[2]
        IN  /\ report.modelo_lineal.precision = ClaimedPrecision(r2)
            /\ report.modelo_random_forest.precision = ClaimedPrecision(r2_rf)
            /\ report.mejor_modelo \in {"Random Forest", "Regresión Lineal"}
            /\ report.mejor_modelo = "Random Forest" <=> r2_rf > r2
            /\ (10 * report.modelo_lineal.r2_score - r2) \in -5..5
            /\ (10 * report.modelo_random_forest.r2_score - r2_rf) \in -5..5

\* a linear model at exactly 0.7 ('Media') beside a forest just above it
\* ('Alta'); the report shows 0.7 for both
C27_Witness ==
    /\ HasEntry("regresion")
    /\ Entry("regresion").error = ""
    /\ r2_values = << 70000, 70004 >>
    /\ Entry("regresion").metrics.modelo_lineal.precision = "Media"
    /\ Entry("regresion").metrics.modelo_random_forest.precision = "Alta"
    /\ Entry("regresion").metrics.modelo_random_forest.r2_score = 7000
    /\ Entry("regresion").metrics.mejor_modelo = "Random Forest"

\* the job records with a salary, and whether the salary of one of them is
\* strictly above their median: at least half of them earn less
SalariedJobs == jobs_data(mining_df)

AboveMedian(row) ==
    2 * BagLen(BagSelect(SalariedJobs,
                         {r \in DOMAIN SalariedJobs : r.salario_usd.n < row.salario_usd.n}))
       >= BagLen(SalariedJobs)

ClassificationDecision ==
    /\ \A r \in DOMAIN SalariedJobs :
          alta_demanda(SalariedJobs, r) = (IF AboveMedian(r) THEN 1 ELSE 0)
    /\ (\A r \in DOMAIN SalariedJobs : ~AboveMedian(r)) =>
          /\ Entry("clasificacion").error
                = "No hay variabilidad suficiente en la variable objetivo"
          /\ "clasificacion" \notin library_fits
    /\ Entry("clasificacion").error = "" =>
          /\ \E r \in DOMAIN SalariedJobs : AboveMedian(r)
          /\ \E r \in DOMAIN SalariedJobs : ~AboveMedian(r)

\* C28 as stated: in analyze_classification on at least 50 job records with
\* a salary, the target of a record is 1 exactly when its salary is strictly
\* above the median of those records; when no record is strictly above the
\* median (all salaries equal) the analysis returns the
\* insufficient-variability result without fitting a model, and a success
\* result never comes from a target of one class.
C28_AsStated ==
    (HasEntry("clasificacion") /\ BagLen(SalariedJobs) >= 50) => ClassificationDecision

\* C28, amended: the same when the mining libraries were imported.
C28_ClassificationTarget ==
    (SKLEARN_AVAILABLE /\ HasEntry("clasificacion") /\ BagLen(SalariedJobs) >= 50)
        => ClassificationDecision

\* fifty jobs of one salary: no variability, no model fitted
C28_Witness ==
    /\ SKLEARN_AVAILABLE
    /\ HasEntry("clasificacion")
    /\ BagLen(SalariedJobs) = 50
    /\ Copies(JobLowRow) = 50
    /\ Entry("clasificacion").error
          = "No hay variabilidad suficiente en la variable objetivo"
    /\ "clasificacion" \notin library_fits

(***************************************************************************)
(* Text features (specification SpecText).                                 *)
(***************************************************************************)
\* C29: a call of create_features_from_text leaves every column that was in
\* the table before the call as it was, the columns an earlier call on
\* another text column created included (its _length, its _word_count and
\* its keyword flags), and drops no row.
C29_ColumnAdditive ==
    /\ Len(text_df.rows) = Len(text_before.rows)
    /\ \A c \in Range(text_before.columns) :
          /\ c \in Range(text_df.columns)
          /\ \A i \in DOMAIN text_before.rows :
                text_df.rows[i][c] = text_before.rows[i][c]

(***************************************************************************)
(* The salary figures of the warehouse summary (specification Spec).       *)
(***************************************************************************)
\* the records of the table with a salary
WithSalary(df) == {i \in DOMAIN df.rows : notna(df.rows[i]["salario_usd"])}

\* the sum of the counts of the salary histogram
HistogramTotal(summary) ==
    SumSeq([b \in DOMAIN salary_labels |-> summary.distribucion_rangos[salary_labels[b]]])

\* the salary figures of a summary of the table
SalaryFigures(df, summary) ==
    /\ summary.registros_con_salario = Cardinality(WithSalary(df))
    /\ HistogramTotal(summary) <= summary.registros_con_salario
    /\ \A i \in DOMAIN df.rows \ WithSalary(df) : df.rows[i]["rango_salario"] = Null
    /\ \A l \in Range(salary_labels) :
          summary.distribucion_rangos[l]
             = Cardinality({i \in WithSalary(df) : df.rows[i]["rango_salario"] = Str(l)})
    /\ WithSalary(df) = {} =>
          /\ summary.salario_promedio = Zero
          /\ summary.salario_mediano = Zero

\* the table the summary step of a build of the current input tables is
\* handed, when the build gets that far
SummaryInput == add_derived_metrics(UnifiedFor(NoTable))

\* the run ended in one of its two builds: it failed and no summary was kept
\* (a failure of the export comes after the summary of the second build)
BuildFailed == pc = "failed" /\ warehouse_summary = NoSummary

====
